---- MODULE Spec2Model ----
(***************************************************************************)
(* Reconciliation engine between the booking system (BS, "10to8") and the  *)
(* CRM (HubSpot): field translators, validity gates, change detector, the  *)
(* outbound and inbound sweeps and the two notification-driven single      *)
(* record syncs, each remote call being one atomic step of its task.       *)
(*                                                                         *)
(* Text values are sequences of atoms: an atom is a separator character    *)
(* (SP, SEP) or an opaque non-empty chunk holding no separator.  The empty *)
(* string is <<>>, Python's None is Null.                                  *)
(***************************************************************************)
EXTENDS Integers, Sequences, FiniteSets, TLC

\* ------------------------------------------------------------------ bounds
MaxCustomers == 3      \* BS customer URIs are 1..MaxCustomers
MaxContacts == 4       \* CRM contact ids are 1..MaxContacts
MaxTime == 2           \* values datetime.now() may return
PageSize == 2          \* records per page returned by either system

MaxSweeps == 2         \* times a sweep is run in one behaviour
MaxList == 3           \* emails, and numbers, of a customer translated alone
MaxOdd == 2            \* properties of a dictionary absent, or None, at once
MaxCalls == 4          \* requests the BS client sends in one behaviour
MaxName == 4           \* atoms (words and spaces) of a name translated alone
MaxDeliveries == 2     \* webhook requests received in one behaviour
MaxSubs == 3           \* subscriptions the BS holds before the first setup
MaxRuns == 2           \* runs of setup_tte_subscriptions in one behaviour

Uri(i) == "u" \o ToString(i)
Hid(i) == "h" \o ToString(i)
URIS == {Uri(i) : i \in 1..MaxCustomers}
HIDS == {Hid(i) : i \in 1..MaxContacts}
Times == 1..MaxTime

\* ------------------------------------------------------------------- text
SP == " "
SEP == ",\n"
IDSEP == ", "
Null == <<"None">>
Ada == <<"Ada">>
AdaLovelace == <<"Ada", SP, "Lovelace">>
OkEmail == <<"ada@x.com">>
BadEmail == <<"not-an-email">>
Phone1 == <<"555">>
Phone2 == <<"556">>

\* validate_email(e, check_format=True, ...): syntax check only
validate_email(e) == e \in {OkEmail, <<"bob@x.com">>}

\* str.split(d)
RECURSIVE Split(_, _)
Split(s, d) ==
  IF \A i \in 1..Len(s) : s[i] # d
  THEN <<s>>
  ELSE LET k == CHOOSE i \in 1..Len(s) :
                  s[i] = d /\ \A j \in 1..(i - 1) : s[j] # d
       IN <<SubSeq(s, 1, k - 1)>> \o Split(SubSeq(s, k + 1, Len(s)), d)

\* d.join(l)
RECURSIVE Join(_, _)
Join(l, d) ==
  IF l = <<>> THEN <<>>
  ELSE IF Len(l) = 1 THEN l[1]
  ELSE l[1] \o <<d>> \o Join(Tail(l), d)

\* [e for e in l if len(e) > 0]
RECURSIVE NonEmpty(_)
NonEmpty(l) ==
  IF l = <<>> THEN <<>>
  ELSE IF l[1] = <<>> THEN NonEmpty(Tail(l))
  ELSE <<l[1]>> \o NonEmpty(Tail(l))

\* ----------------------------------------------------------------- status
\* "Last synced: <t>"
get_hubspot_sync_status(t) == [kind |-> "ok", t |-> t, v |-> <<>>]
get_status(t) == [kind |-> "ok", t |-> t, v |-> <<>>]
\* f"Error: Invalid email {e}"
ErrorStatus(e) == [kind |-> "err", t |-> 0, v |-> e]
NullStatus == [kind |-> "null", t |-> 0, v |-> <<>>]
EmptyStatus == [kind |-> "empty", t |-> 0, v |-> <<>>]
\* "Error" in status
HasErrorToken(s) == s.kind = "err"

\* ------------------------------------------------------- field translators
\* variant: the secondary fields hold every value, the primary one included
convert_to_hubspot_data_AllSecondary(c, t) ==
  LET names == Split(c.name, SP)
  IN [firstname |-> names[1],
      lastname |-> Join(Tail(names), SP),
      tte_customer_uri |-> <<c.uri>>,
      tte_customer_sync_status |-> get_hubspot_sync_status(t),
      phone |-> IF Len(c.numbers) > 0 THEN c.numbers[1] ELSE <<>>,
      tte_customer_secondary_phone |->
        IF Len(c.numbers) > 0 THEN Join(c.numbers, SEP) ELSE <<>>,
      email |-> IF Len(c.emails) > 0 THEN c.emails[1] ELSE <<>>,
      tte_customer_secondary_emails |->
        IF Len(c.emails) > 0 THEN Join(c.emails, SEP) ELSE <<>>]

\* variant: the data sent to the CRM does not carry the customer's URI
convert_to_hubspot_data_NoUri(c, t) ==
  LET names == Split(c.name, SP)
  IN [firstname |-> names[1],
      lastname |-> Join(Tail(names), SP),
      tte_customer_uri |-> <<>>,
      tte_customer_sync_status |-> get_hubspot_sync_status(t),
      phone |-> IF Len(c.numbers) > 0 THEN c.numbers[1] ELSE <<>>,
      tte_customer_secondary_phone |->
        IF Len(c.numbers) > 0 THEN Join(Tail(c.numbers), SEP) ELSE <<>>,
      email |-> IF Len(c.emails) > 0 THEN c.emails[1] ELSE <<>>,
      tte_customer_secondary_emails |->
        IF Len(c.emails) > 0 THEN Join(Tail(c.emails), SEP) ELSE <<>>]

convert_to_hubspot_data(c, t) ==
  LET names == Split(c.name, SP)
  IN [firstname |-> names[1],
      lastname |-> Join(Tail(names), SP),
      tte_customer_uri |-> <<c.uri>>,
      tte_customer_sync_status |-> get_hubspot_sync_status(t),
      phone |-> IF Len(c.numbers) > 0 THEN c.numbers[1] ELSE <<>>,
      tte_customer_secondary_phone |->
        IF Len(c.numbers) > 0 THEN Join(Tail(c.numbers), SEP) ELSE <<>>,
      email |-> IF Len(c.emails) > 0 THEN c.emails[1] ELSE <<>>,
      tte_customer_secondary_emails |->
        IF Len(c.emails) > 0 THEN Join(Tail(c.emails), SEP) ELSE <<>>]

\* variant: the status reports the invalid email, which is sent all the same
block_outbound_sync_for_invalid_fields_KeepEmail(d, t) ==
  IF d.email # <<>> /\ ~validate_email(d.email)
  THEN [d EXCEPT !.tte_customer_sync_status = ErrorStatus(d.email)]
  ELSE [d EXCEPT !.tte_customer_sync_status = get_hubspot_sync_status(t)]

block_outbound_sync_for_invalid_fields(d, t) ==
  IF d.email # <<>> /\ ~validate_email(d.email)
  THEN [d EXCEPT !.tte_customer_sync_status = ErrorStatus(d.email),
                 !.email = <<>>]
  ELSE [d EXCEPT !.tte_customer_sync_status = get_hubspot_sync_status(t)]

\* variant: the spacer is put in whether or not both names are there
join_names_AlwaysSpacer(firstname, lastname) ==
  LET f == IF firstname = Null THEN <<>> ELSE firstname
      l == IF lastname = Null THEN <<>> ELSE lastname
  IN f \o <<SP>> \o l

join_names(firstname, lastname) ==
  LET f == IF firstname = Null THEN <<>> ELSE firstname
      l == IF lastname = Null THEN <<>> ELSE lastname
      spacer == IF f # <<>> /\ l # <<>> THEN <<SP>> ELSE <<>>
  IN f \o spacer \o l

\* Python truthiness of a text value: None and "" are false
Truthy(s) == s # Null /\ s # <<>>

convert_to_tte_customer_data(p, t) ==
  [name |-> join_names(p.firstname, p.lastname),
   emails |-> (IF Truthy(p.email) THEN <<p.email>> ELSE <<>>)
              \o (IF p.tte_customer_secondary_emails # Null
                  THEN NonEmpty(Split(p.tte_customer_secondary_emails, SEP))
                  ELSE <<>>),
   numbers |-> (IF Truthy(p.phone) THEN <<p.phone>> ELSE <<>>)
               \o (IF p.tte_customer_secondary_phone # Null
                   THEN NonEmpty(Split(p.tte_customer_secondary_phone, SEP))
                   ELSE <<>>),
   external_id |-> p.hs_object_id,
   status |-> get_status(t),
   \* the key tte_resource_uri is present iff the value is not NoUri
   tte_resource_uri |-> p.tte_customer_uri]

\* get_hubspot_ids: None when the External ID custom field is absent (the
\* field is then held as Null), else the field split on ", "
get_hubspot_ids(c) == IF c.extid = Null THEN Null ELSE Split(c.extid, IDSEP)
\* variant: any list of ids is taken for an identity, its first id used
NoSingleId_NoneOnly(ids) == ids = Null

\* hubspot_ids is None or len(hubspot_ids) != 1
NoSingleId(ids) == ids = Null \/ Len(ids) # 1

\* --------------------------------------------------------- change detector
\* variant: the cross-reference is compared as well
HUBSPOT_COMPARISON_PROPERTIES_WithUri ==
  {"firstname", "lastname", "email", "phone", "tte_customer_uri",
   "tte_customer_secondary_emails", "tte_customer_secondary_phone"}

HUBSPOT_COMPARISON_PROPERTIES ==
  {"firstname", "lastname", "email", "phone",
   "tte_customer_secondary_emails", "tte_customer_secondary_phone"}

data_has_changed(current, new, properties) ==
  \E p \in properties :
     /\ ~(current[p] = Null /\ new[p] = <<>>)
     /\ current[p] # new[p]

\* variant: any change of the status counts
has_error_status_changed_AnyChange(current, new) ==
  LET norm(s) == IF s.kind = "null" THEN EmptyStatus ELSE s
  IN norm(current.tte_customer_sync_status)
       # norm(new.tte_customer_sync_status)

has_error_status_changed(current, new) ==
  LET norm(s) == IF s.kind = "null" THEN EmptyStatus ELSE s
      c == norm(current.tte_customer_sync_status)
      n == norm(new.tte_customer_sync_status)
  IN (c # n) /\ (HasErrorToken(c) \/ HasErrorToken(n))

\* ------------------------------------------------------------------ state
VARIABLES
  bs,         \* BS customers by URI
  crm,        \* CRM contacts by id
  bsReject,   \* URIs whose PATCH/DELETE the BS answers with an error status
  crmReject,  \* ids whose update/archive the CRM rejects ("new": creates)
  track,      \* TRACK_EXTERNAL_IDS
  osw,        \* outbound sweep task (outbound_sync_all)
  oev,        \* outbound notification task (tte_sync_customers)
  isw,        \* inbound sweep task (inbound_sync_all)
  iev,        \* inbound notification task (handle_hubspot_notifications)
  hooks,      \* the webhook subscriptions of both systems are registered
  edits,      \* end-user edits still to come
  bsDue,      \* URIs of the BS notifications not yet delivered
  crmDue,     \* CRM notifications not yet delivered
  call,       \* a function of the clients applied on its own: name, arguments
  ret,        \* <<>> before it returns, <<value>> after
  fetchFail,  \* the reads that fail: URIs whose GET the BS answers with 500,
              \* page fetches (system and cursor) answered with an error
  hsub,       \* the webhook subscriptions of the CRM app and the run of
              \* setup_hubspot_subscriptions
  net,        \* the processes that call the BS client, and the delays taken
  web,        \* the webhook requests received, the answers given and the
              \* processes started for them
  tsub        \* the subscriptions of the BS organisation and the run of
              \* setup_tte_subscriptions

cfg == <<bsReject, crmReject, track, hooks, edits, call, ret, fetchFail,
         hsub, net, web, tsub>>
\* what the syncs work on
sync == <<bs, crm, bsReject, crmReject, track, hooks, edits, call, ret,
          fetchFail, osw, oev, isw, iev, bsDue, crmDue>>
vars == <<bs, crm, cfg, osw, oev, isw, iev, bsDue, crmDue>>

\* --------------------------------------------------------------- BS store
NoCustomer(u) ==
  [exists |-> FALSE, deleted |-> FALSE, uri |-> u, name |-> <<>>,
   emails |-> <<>>, numbers |-> <<>>, extid |-> Null, status |-> NullStatus]

Customer(u, name, emails, numbers, extid) ==
  [exists |-> TRUE, deleted |-> FALSE, uri |-> u, name |-> name,
   emails |-> emails, numbers |-> numbers, extid |-> extid,
   status |-> NullStatus]

\* a list parameter left at its default None
NullList == <<Null>>

\* the key of a text holding one URI (one id), "" for any other text
KeyOf(text) == IF text # Null /\ Len(text) = 1 THEN text[1] ELSE ""

\* BS answers 404 for a URI it does not serve
BsFound(b, u) == u \in URIS /\ b[u].exists /\ ~b[u].deleted

\* variant: every error status of the GET is taken for a 404
BsGetStatus_AllNotFound(b, ff, u) ==
  IF ~BsFound(b, u) \/ u \in ff THEN 404 ELSE 200

\* requests.get(url) ; response.raise_for_status() in tte_get_customer
BsGetStatus(b, ff, u) ==
  IF ~BsFound(b, u) THEN 404 ELSE IF u \in ff THEN 500 ELSE 200

\* the fetch of the page at the cursor, of the BS ("bs") or the CRM ("crm")
PageFetch(sys, cursor) == sys \o ToString(cursor)

\* requests.patch(...) ; response.raise_for_status()
BsPatchStatus(b, rej, u) ==
  IF ~BsFound(b, u) THEN 404 ELSE IF u \in rej THEN 500 ELSE 200

\* the customer after a successful PATCH with the body tte_update_customer
\* builds: status always, the other fields when they are not None
BsPatched(c, d) ==
  [c EXCEPT !.status = d.status,
            !.name = IF d.name # Null THEN d.name ELSE @,
            !.emails = IF d.emails # NullList THEN d.emails ELSE @,
            !.numbers = IF d.numbers # NullList THEN d.numbers ELSE @,
            !.extid = IF d.external_id # Null THEN d.external_id ELSE @]

\* arguments of tte_update_customer
TteUpdateArgs(name, emails, numbers, external_id, status) ==
  [name |-> name, emails |-> emails, numbers |-> numbers,
   external_id |-> external_id, status |-> status]

\* the customer list in the order the BS returns it
RECURSIVE BsListFrom(_, _, _)
BsListFrom(b, i, deleted) ==
  IF i > MaxCustomers THEN <<>>
  ELSE (IF b[Uri(i)].exists /\ (deleted \/ ~b[Uri(i)].deleted)
        THEN <<b[Uri(i)]>> ELSE <<>>) \o BsListFrom(b, i + 1, deleted)

\* tte_get_customer_page: cursor 0 is the first page (page_url None); the
\* result is the page and the next cursor, 0 for "next": null
tte_get_customer_page(b, cursor, deleted) ==
  LET all == BsListFrom(b, 1, deleted)
      from == IF cursor = 0 THEN 1 ELSE cursor
      to == IF from + PageSize - 1 < Len(all) THEN from + PageSize - 1
            ELSE Len(all)
  IN [results |-> SubSeq(all, from, to),
      next |-> IF to < Len(all) THEN to + 1 ELSE 0]

\* -------------------------------------------------------------- CRM store
\* HubSpot returns an unset text property as null
CrmStored(v) == IF v = <<>> THEN Null ELSE v

NoProps(h) ==
  [firstname |-> Null, lastname |-> Null, hs_object_id |-> <<h>>,
   email |-> Null, phone |-> Null, tte_customer_uri |-> Null,
   tte_customer_secondary_emails |-> Null,
   tte_customer_secondary_phone |-> Null,
   tte_customer_sync_status |-> NullStatus]

NoContact(h) == [exists |-> FALSE, archived |-> FALSE, props |-> NoProps(h)]

\* properties after an update (or create) carrying the properties d
CrmMerged(p, d) ==
  [k \in DOMAIN p |->
     IF k \in DOMAIN d
     THEN (IF k = "tte_customer_sync_status" THEN d[k] ELSE CrmStored(d[k]))
     ELSE p[k]]

CrmLive(c, h) == h \in HIDS /\ c[h].exists /\ ~c[h].archived

\* the id a create would be given, "" when the model has none left
FreeHid(c) ==
  IF \E i \in 1..MaxContacts : ~c[Hid(i)].exists
  THEN Hid(CHOOSE i \in 1..MaxContacts :
             ~c[Hid(i)].exists /\ \A j \in 1..(i - 1) : c[Hid(j)].exists)
  ELSE ""

\* basic_api.create succeeds
CrmCreateOk(c, rej) == "new" \notin rej

\* basic_api.update succeeds
CrmUpdateOk(c, rej, idtext) ==
  CrmLive(c, KeyOf(idtext)) /\ KeyOf(idtext) \notin rej

\* get_hubspot_contact: ids of the live contacts whose tte_customer_uri
\* equals the URI, in id order
\* variant: the search returns the archived contacts as well
get_hubspot_contact_Archived(c, uri) ==
  SelectSeq([i \in 1..MaxContacts |-> Hid(i)],
            LAMBDA h : c[h].exists /\ c[h].props.tte_customer_uri = <<uri>>)

RECURSIVE CrmSearchFrom(_, _, _)
CrmSearchFrom(c, i, uri) ==
  IF i > MaxContacts THEN <<>>
  ELSE (IF CrmLive(c, Hid(i)) /\ c[Hid(i)].props.tte_customer_uri = <<uri>>
        THEN <<Hid(i)>> ELSE <<>>) \o CrmSearchFrom(c, i + 1, uri)
get_hubspot_contact(c, uri) == CrmSearchFrom(c, 1, uri)

\* -------------------------------------------------------------- requests
CrmCreateReq(d) == [sys |-> "crm", op |-> "create", to |-> "", data |-> d]
CrmUpdateReq(idtext, d) ==
  [sys |-> "crm", op |-> "update", to |-> KeyOf(idtext), data |-> d]
CrmArchiveReq(h) == [sys |-> "crm", op |-> "archive", to |-> h, data |-> <<>>]
BsUpdateReq(u, d) == [sys |-> "bs", op |-> "update", to |-> u, data |-> d]
BsCreateReq(d) == [sys |-> "bs", op |-> "create", to |-> "", data |-> d]
BsDeleteReq(u, force) ==
  [sys |-> "bs", op |-> "delete", to |-> u, data |-> [force |-> force]]

\* delete_hubspot_contact(uri): the archive requests it issues ...
RECURSIVE ArchiveReqs(_)
ArchiveReqs(ids) ==
  IF ids = <<>> THEN <<>>
  ELSE <<CrmArchiveReq(ids[1])>> \o ArchiveReqs(Tail(ids))
delete_hubspot_contact_reqs(c, uri) == ArchiveReqs(get_hubspot_contact(c, uri))
\* ... and the CRM after them (a rejected archive is logged and skipped)
delete_hubspot_contact(c, rej, uri) ==
  [h \in HIDS |->
     IF CrmLive(c, h) /\ c[h].props.tte_customer_uri = <<uri>> /\ h \notin rej
     THEN [c[h] EXCEPT !.archived = TRUE]
     ELSE c[h]]

\* variant: a change of the sync status is subscribed as well
HUBSPOT_SUBSCRIPTIONS_WithStatus ==
  {"firstname", "lastname", "email", "phone",
   "tte_customer_secondary_emails", "tte_customer_secondary_phone",
   "tte_customer_sync_status"}

\* ---------------------------------------------------------- notifications
\* config.HUBSPOT_SUBSCRIPTIONS["contact.propertyChange"]
HUBSPOT_SUBSCRIPTIONS ==
  {"firstname", "lastname", "email", "phone",
   "tte_customer_secondary_emails", "tte_customer_secondary_phone"}

Notification(type, h) == [subscriptionType |-> type, objectId |-> h]

\* what the CRM notifies its subscribers of when its contacts go from c to c2
CrmEvents(c, c2) ==
  {Notification("contact.creation", h) :
     h \in {k \in HIDS : ~c[k].exists /\ c2[k].exists}}
  \cup {Notification("contact.deletion", h) :
     h \in {k \in HIDS : ~c[k].archived /\ c2[k].archived}}
  \cup {Notification("contact.propertyChange", h) :
     h \in {k \in HIDS : /\ c[k].exists /\ c2[k].exists
                          /\ \E q \in HUBSPOT_SUBSCRIPTIONS :
                               c[k].props[q] # c2[k].props[q]}}

CrmNotify == crmDue' = IF hooks THEN crmDue \cup CrmEvents(crm, crm') ELSE crmDue

\* the BS notifies its customer subscription of every write it accepted
BsNotify(written) == bsDue' = IF hooks THEN bsDue \cup written ELSE bsDue

\* ------------------------------------------------------------------ tasks
\* The local state of a task: page is the page of a sweep or the batch of a
\* notification task, i the item in hand, cur the snapshot it was read as,
\* current the counterpart read for it (the contact of an outbound sync, the
\* customer of the inbound gate), data the candidate data, pend the
\* properties of the CRM write still to come, br the branch an inbound step
\* took, log the mutation requests issued for the item, reads the number of
\* tte_get_customer calls made for it, visited the items whose step has
\* begun, fin whether the step of the last of them is over.
TaskOff ==
  [kind |-> "", pc |-> "off", round |-> 0, cursor |-> 0, page |-> <<>>,
   next |-> 0, del |-> FALSE, i |-> 0, cur |-> <<>>, current |-> <<>>,
   data |-> <<>>, pend |-> <<>>, newid |-> Null, br |-> "", log |-> <<>>,
   reads |-> 0, visited |-> <<>>, fin |-> FALSE]
TaskIdle(kind) == [TaskOff EXCEPT !.kind = kind, !.pc = "idle"]
\* a notification task handed its batch
TaskBatch(kind, batch) ==
  [TaskOff EXCEPT !.kind = kind, !.pc = "rec", !.page = batch, !.i = 1]

\* variant: the loop of a sweep follows the returned cursor even when it is
\* None, which names the first page
Advance_FollowNone(o) ==
  IF o.i < Len(o.page) THEN [o EXCEPT !.pc = "rec", !.i = @ + 1, !.fin = TRUE]
  ELSE IF o.kind \in {"osw", "isw"}
       THEN [o EXCEPT !.pc = "fetch", !.cursor = o.next, !.fin = TRUE]
       ELSE [o EXCEPT !.pc = "done", !.fin = TRUE]

\* variant: inbound_sync_all returns after the pass over the live contacts
Advance_OnePass(o) ==
  IF o.i < Len(o.page) THEN [o EXCEPT !.pc = "rec", !.i = @ + 1, !.fin = TRUE]
  ELSE IF o.next # 0
       THEN [o EXCEPT !.pc = "fetch", !.cursor = o.next, !.fin = TRUE]
       ELSE [o EXCEPT !.pc = "done", !.fin = TRUE]

\* after the step of item i: the next item of the page or batch, else the
\* page the returned cursor names, else (inbound_sync_all) the pass over the
\* archived contacts, else the end
Advance(o) ==
  IF o.i < Len(o.page) THEN [o EXCEPT !.pc = "rec", !.i = @ + 1, !.fin = TRUE]
  ELSE IF o.next # 0
       THEN [o EXCEPT !.pc = "fetch", !.cursor = o.next, !.fin = TRUE]
       ELSE IF o.kind = "isw" /\ ~o.del
            THEN [o EXCEPT !.pc = "fetch", !.cursor = 0, !.del = TRUE,
                           !.fin = TRUE]
            ELSE [o EXCEPT !.pc = "done", !.fin = TRUE]

\* the item in hand is begun: its log is empty
Begin(o, what) ==
  [o EXCEPT !.fin = FALSE, !.log = <<>>, !.visited = Append(@, what),
            !.current = <<>>, !.pend = <<>>, !.newid = Null, !.br = "",
            !.reads = 0]

\* --------------------------------------------------------- outbound sweep
\* outbound_sync_all(track) = outbound_sync(track, include_deletions=True)

\* variant: the data goes out without passing the outbound gate
OutSweepCrmReq_Ungated(c, t) ==
  LET d == convert_to_hubspot_data(c, t)
      ids == get_hubspot_ids(c)
  IN IF NoSingleId(ids) THEN CrmCreateReq(d) ELSE CrmUpdateReq(ids[1], d)

\* the CRM request of the sweep's step for the live record c
OutSweepCrmReq(c, t) ==
  LET d == block_outbound_sync_for_invalid_fields(
             convert_to_hubspot_data(c, t), t)
      ids == get_hubspot_ids(c)
  IN IF NoSingleId(ids) THEN CrmCreateReq(d) ELSE CrmUpdateReq(ids[1], d)

\* variant: the new id is written back whatever track_external_ids says
OutSweepBsReq_AlwaysId(c, d, trk, newid) ==
  BsUpdateReq(c.uri, TteUpdateArgs(Null, NullList, NullList,
                IF NoSingleId(get_hubspot_ids(c)) THEN newid ELSE Null,
                d.tte_customer_sync_status))

\* variant: the primary email sent to the CRM is written back to the BS
OutSweepBsReq_WithEmail(c, d, trk, newid) ==
  BsUpdateReq(c.uri, TteUpdateArgs(Null, <<d.email>>, NullList,
                IF NoSingleId(get_hubspot_ids(c)) /\ trk THEN newid ELSE Null,
                d.tte_customer_sync_status))

\* variant: the id create_hubspot_contact returned is never written back
OutSweepBsReq_NoId(c, d, trk, newid) ==
  BsUpdateReq(c.uri, TteUpdateArgs(Null, NullList, NullList, Null,
                d.tte_customer_sync_status))

\* the tte_update_customer call that follows it; d is the gated data sent
\* to the CRM and newid what create_hubspot_contact returned
OutSweepBsReq(c, d, trk, newid) ==
  IF NoSingleId(get_hubspot_ids(c))
  THEN BsUpdateReq(c.uri, TteUpdateArgs(Null, NullList, NullList,
                     IF trk THEN newid ELSE Null,
                     d.tte_customer_sync_status))
  ELSE BsUpdateReq(c.uri, TteUpdateArgs(Null, NullList, NullList, Null,
                     d.tte_customer_sync_status))

\* the CRM after a create or update request (a rejected one changes nothing)
CrmAfter(c, rej, req) ==
  IF req.op = "create"
  THEN IF CrmCreateOk(c, rej)
       THEN [c EXCEPT ![FreeHid(c)] =
               [exists |-> TRUE, archived |-> FALSE,
                props |-> CrmMerged(NoProps(FreeHid(c)), req.data)]]
       ELSE c
  ELSE IF CrmUpdateOk(c, rej, <<req.to>>)
       THEN [c EXCEPT ![req.to].props = CrmMerged(@, req.data)]
       ELSE c

\* what create_hubspot_contact returns
CreatedId(c, rej) == IF CrmCreateOk(c, rej) THEN <<FreeHid(c)>> ELSE Null

OutStart ==
  /\ osw.pc \in {"idle", "done"}
  /\ osw.round < MaxSweeps
  /\ osw' = [TaskIdle("osw") EXCEPT !.pc = "fetch", !.round = osw.round + 1]
  /\ UNCHANGED <<bs, crm, cfg, oev, isw, iev, bsDue, crmDue>>

\* tte_get_customer_page raises for an error status, and nothing up to
\* outbound_sync_all catches it; a page without results ends the sweep
OutFetchPage ==
  /\ osw.pc = "fetch"
  /\ LET page == tte_get_customer_page(bs, osw.cursor, TRUE)
     IN osw' = IF PageFetch("bs", osw.cursor) \in fetchFail
               THEN [osw EXCEPT !.pc = "aborted", !.fin = FALSE]
               ELSE IF page.results = <<>>
               THEN [osw EXCEPT !.pc = "done", !.fin = FALSE]
               ELSE [osw EXCEPT !.pc = "rec", !.page = page.results,
                                !.next = page.next, !.i = 1, !.fin = FALSE]
  /\ UNCHANGED <<bs, crm, cfg, oev, isw, iev, bsDue, crmDue>>

\* lines 36-49 and 55-62: the CRM half of the step for record i
OutRecCrm ==
  /\ osw.pc = "rec"
  /\ \E t \in Times :
       LET c == osw.page[osw.i]
           o == [Begin(osw, c.uri) EXCEPT !.cur = c]
       IN IF c.deleted
          THEN /\ crm' = delete_hubspot_contact(crm, crmReject, c.uri)
               /\ osw' = Advance([o EXCEPT
                            !.log = delete_hubspot_contact_reqs(crm, c.uri)])
          ELSE LET req == OutSweepCrmReq(c, t)
               IN /\ (req.op = "create" /\ CrmCreateOk(crm, crmReject))
                       => FreeHid(crm) # ""
                  /\ crm' = CrmAfter(crm, crmReject, req)
                  /\ osw' = [o EXCEPT
                       !.pc = "bs", !.log = <<req>>, !.data = req.data,
                       !.newid = IF req.op = "create"
                                 THEN CreatedId(crm, crmReject) ELSE Null]
  /\ CrmNotify
  /\ UNCHANGED <<bs, cfg, oev, isw, iev, bsDue>>

\* lines 50-54 and 63-66: tte_update_customer; an HTTP error status raises
\* out of outbound_sync_page and outbound_sync
OutRecBs ==
  /\ osw.pc = "bs"
  /\ LET c == osw.cur
         req == OutSweepBsReq(c, osw.data, track, osw.newid)
         o == [osw EXCEPT !.log = Append(@, req)]
     IN IF BsPatchStatus(bs, bsReject, c.uri) = 200
        THEN /\ bs' = [bs EXCEPT ![c.uri] = BsPatched(@, req.data)]
             /\ BsNotify({c.uri})
             /\ osw' = Advance(o)
        ELSE /\ bs' = bs
             /\ BsNotify({})
             /\ osw' = [o EXCEPT !.pc = "aborted"]
  /\ UNCHANGED <<crm, cfg, oev, isw, iev, crmDue>>

\* ------------------------------------------- outbound notification task
\* tte_sync_customers(customer_uris): tte_sync_customer for each URI in
\* turn; a RequestException skips the URI, any other exception ends the task

\* variant: every comparison counts as a change
update_hubspot_contact_if_changed_Always(current, new) == TRUE

\* update_hubspot_contact_if_changed: the value it returns
update_hubspot_contact_if_changed(current, new) ==
  \/ data_has_changed(current, new, HUBSPOT_COMPARISON_PROPERTIES)
  \/ has_error_status_changed(current, new)

\* variant: the linked contact is updated without asking the change detector
OutEventCrmReqs_Always(c, current, t) ==
  LET d == block_outbound_sync_for_invalid_fields(
             convert_to_hubspot_data(c, t), t)
  IN IF current # <<>>
     THEN <<CrmUpdateReq(get_hubspot_ids(c)[1], d)>>
     ELSE <<CrmCreateReq(d)>>

\* variant: only a change of the compared fields leads to an update
OutEventCrmReqs_DataOnly(c, current, t) ==
  LET d == block_outbound_sync_for_invalid_fields(
             convert_to_hubspot_data(c, t), t)
  IN IF current # <<>>
     THEN IF data_has_changed(current, d, HUBSPOT_COMPARISON_PROPERTIES)
          THEN <<CrmUpdateReq(get_hubspot_ids(c)[1], d)>>
          ELSE <<>>
     ELSE <<CrmCreateReq(d)>>

\* the CRM requests tte_sync_customer issues for the live record c, current
\* being the contact it read (<<>> when it read none)
OutEventCrmReqs(c, current, t) ==
  LET d == block_outbound_sync_for_invalid_fields(
             convert_to_hubspot_data(c, t), t)
  IN IF current # <<>>
     THEN IF update_hubspot_contact_if_changed(current, d)
          THEN <<CrmUpdateReq(get_hubspot_ids(c)[1], d)>>
          ELSE <<>>
     ELSE <<CrmCreateReq(d)>>

\* the tte_update_customer call that follows a CRM request
OutEventBsReq(c, current, d, newid) ==
  IF current # <<>>
  THEN BsUpdateReq(c.uri, TteUpdateArgs(Null, NullList, NullList, Null,
                     d.tte_customer_sync_status))
  ELSE BsUpdateReq(c.uri, TteUpdateArgs(Null, NullList, NullList, newid,
                     d.tte_customer_sync_status))

\* tte_get_customer(customer_uri), get_hubspot_ids; a 404 leads to
\* delete_hubspot_contact, another error status skips the URI
OevFetch ==
  /\ oev.pc = "rec"
  /\ LET u == oev.page[oev.i]
         o == [Begin(oev, u) EXCEPT !.reads = 1]
         code == BsGetStatus(bs, fetchFail, u)
     IN oev' = IF code = 200
               THEN [o EXCEPT !.cur = bs[u],
                       !.pc = IF NoSingleId(get_hubspot_ids(bs[u]))
                              THEN "crm" ELSE "get"]
               ELSE IF code = 404
               THEN [o EXCEPT !.cur = NoCustomer(u), !.pc = "del"]
               ELSE Advance([o EXCEPT !.cur = NoCustomer(u)])
  /\ UNCHANGED <<bs, crm, cfg, osw, isw, iev, bsDue, crmDue>>

\* get_hubspot_contact_by_id(hubspot_ids[0]): the ApiException of a contact
\* the CRM does not serve is raised again, and nothing up to the task's
\* entry point catches it
OevGet ==
  /\ oev.pc = "get"
  /\ LET h == KeyOf(get_hubspot_ids(oev.cur)[1])
     IN oev' = IF CrmLive(crm, h)
               THEN [oev EXCEPT !.pc = "crm", !.current = crm[h].props]
               ELSE [oev EXCEPT !.pc = "crashed"]
  /\ UNCHANGED <<bs, crm, cfg, osw, isw, iev, bsDue, crmDue>>

\* the gate, then update_hubspot_contact_if_changed or create_hubspot_contact
OevCrm ==
  /\ oev.pc = "crm"
  /\ \E t \in Times :
       LET reqs == OutEventCrmReqs(oev.cur, oev.current, t)
       IN IF reqs = <<>>
          THEN /\ crm' = crm
               /\ oev' = Advance(oev)
          ELSE /\ (reqs[1].op = "create" /\ CrmCreateOk(crm, crmReject))
                    => FreeHid(crm) # ""
               /\ crm' = CrmAfter(crm, crmReject, reqs[1])
               /\ oev' = [oev EXCEPT
                    !.pc = "bs", !.log = reqs, !.data = reqs[1].data,
                    !.newid = IF reqs[1].op = "create"
                              THEN CreatedId(crm, crmReject) ELSE Null]
  /\ CrmNotify
  /\ UNCHANGED <<bs, cfg, osw, isw, iev, bsDue>>

\* tte_update_customer: a 404 leads to delete_hubspot_contact, another error
\* status is a RequestException, which skips the URI
OevBs ==
  /\ oev.pc = "bs"
  /\ LET c == oev.cur
         req == OutEventBsReq(c, oev.current, oev.data, oev.newid)
         o == [oev EXCEPT !.log = Append(@, req)]
         code == BsPatchStatus(bs, bsReject, c.uri)
     IN /\ bs' = IF code = 200
                 THEN [bs EXCEPT ![c.uri] = BsPatched(@, req.data)]
                 ELSE bs
        /\ BsNotify(IF code = 200 THEN {c.uri} ELSE {})
        /\ oev' = IF code = 404 THEN [o EXCEPT !.pc = "del"] ELSE Advance(o)
  /\ UNCHANGED <<crm, cfg, osw, isw, iev, crmDue>>

\* except HTTPError, status 404: delete_hubspot_contact(customer_uri)
OevDel ==
  /\ oev.pc = "del"
  /\ crm' = delete_hubspot_contact(crm, crmReject, oev.cur.uri)
  /\ oev' = Advance([oev EXCEPT
               !.log = @ \o delete_hubspot_contact_reqs(crm, oev.cur.uri)])
  /\ CrmNotify
  /\ UNCHANGED <<bs, cfg, osw, isw, iev, bsDue>>

\* ---------------------------------------------------------------- inbound
\* The steps inbound_sync_page and handle_hubspot_notification share: each
\* yields the task and the stores after one remote call.  A RequestException
\* is caught by the caller, which goes on to the next item.

\* the id BS would give a new customer, "" when the model has none left
FreeUri(b) ==
  IF \E i \in 1..MaxCustomers : ~b[Uri(i)].exists
  THEN Uri(CHOOSE i \in 1..MaxCustomers :
             ~b[Uri(i)].exists /\ \A j \in 1..(i - 1) : b[Uri(j)].exists)
  ELSE ""

\* "tte_resource_uri" in tte_customer_data
HasUri(d) == d.tte_resource_uri # Null /\ d.tte_resource_uri # <<>>

\* variant: the old primary email is put back whether valid or not
block_inbound_sync_for_invalid_fields_KeepAny(d, current) ==
  IF Len(current.emails) > 0
  THEN [d EXCEPT !.emails = <<current.emails[1]>> \o @]
  ELSE d

\* variant: the error status is set, the old email is not put back
block_inbound_sync_for_invalid_fields_StatusOnly(d, current) ==
  IF Len(current.emails) > 0 /\ ~validate_email(current.emails[1])
  THEN [d EXCEPT !.status = ErrorStatus(current.emails[1])]
  ELSE d

\* block_inbound_sync_for_invalid_fields, current being the customer that
\* tte_get_customer returned
block_inbound_sync_for_invalid_fields(d, current) ==
  IF Len(current.emails) > 0 /\ ~validate_email(current.emails[1])
  THEN [d EXCEPT !.status = ErrorStatus(current.emails[1]),
                 !.emails = <<current.emails[1]>> \o @]
  ELSE d

\* hubspot_data["email"] == "" or hubspot_data["email"] is None
BlankEmail(p) == p.email = <<>> \/ p.email = Null

\* inbound_sync_update_customer, first call: the gate's tte_get_customer
InGate(o, b) ==
  LET u == KeyOf(o.data.tte_resource_uri)
      o2 == [o EXCEPT !.reads = @ + 1]
  IN IF BsGetStatus(b, fetchFail, u) = 200
     THEN [o2 EXCEPT !.pc = "bs", !.current = b[u],
             !.data = block_inbound_sync_for_invalid_fields(o.data, b[u])]
     ELSE Advance(o2)

\* inbound_sync_update_customer: tte_update_customer(**tte_customer_data)
InBsReq(d) ==
  BsUpdateReq(KeyOf(d.tte_resource_uri),
              TteUpdateArgs(d.name, d.emails, d.numbers, d.external_id,
                            d.status))
\* variant: the BS update and the status write-back are sent only when the
\* change detector finds the contact and the customer to differ
InBs_IfChanged(o, b, rej) ==
  LET req == InBsReq(o.data)
      o2 == [o EXCEPT !.log = Append(@, req)]
      d == block_outbound_sync_for_invalid_fields(
             convert_to_hubspot_data(b[req.to], 1), 1)
  IN IF BsFound(b, req.to) /\ ~update_hubspot_contact_if_changed(o.cur, d)
     THEN [o |-> Advance(o), bs |-> b, wrote |-> {}]
     ELSE IF BsPatchStatus(b, rej, req.to) = 200
          THEN [o |-> [o2 EXCEPT !.pc = "crm",
                         !.pend = [tte_customer_sync_status |-> o.data.status]],
                bs |-> [b EXCEPT ![req.to] = BsPatched(@, req.data)],
                wrote |-> {req.to}]
          ELSE [o |-> Advance(o2), bs |-> b, wrote |-> {}]

InBs(o, b, rej) ==
  LET req == InBsReq(o.data)
      o2 == [o EXCEPT !.log = Append(@, req)]
  IN IF BsPatchStatus(b, rej, req.to) = 200
     THEN [o |-> [o2 EXCEPT !.pc = "crm",
                    !.pend = [tte_customer_sync_status |-> o.data.status]],
           bs |-> [b EXCEPT ![req.to] = BsPatched(@, req.data)],
           wrote |-> {req.to}]
     ELSE [o |-> Advance(o2), bs |-> b, wrote |-> {}]

\* update_hubspot_contact(hubspot_id, properties=pend): the status write
\* of an update, the cross-reference and status write of a create
InCrm(o, c, rej) ==
  LET req == CrmUpdateReq(o.data.external_id, o.pend)
  IN [o |-> Advance([o EXCEPT !.log = Append(@, req)]),
      crm |-> CrmAfter(c, rej, req)]

\* inbound_sync_create_customer: tte_create_customer(**tte_customer_data)
InCreateReq(d) ==
  BsCreateReq([name |-> d.name, emails |-> d.emails, numbers |-> d.numbers,
               external_id |-> d.external_id, status |-> d.status])
InCreate(o, b, rej, trk) ==
  LET req == InCreateReq(o.data)
      o2 == [o EXCEPT !.log = Append(@, req)]
      u == FreeUri(b)
      made == [Customer(u, req.data.name, req.data.emails, req.data.numbers,
                        req.data.external_id)
                 EXCEPT !.status = req.data.status]
  IN IF "new" \in rej
     THEN [o |-> Advance(o2), bs |-> b, wrote |-> {}]
     ELSE [o |-> IF trk
                 THEN [o2 EXCEPT !.pc = "crm",
                         !.pend = [tte_customer_uri |-> <<u>>,
                                   tte_customer_sync_status |-> o.data.status]]
                 ELSE Advance(o2),
           bs |-> [b EXCEPT ![u] = made],
           wrote |-> {u}]

\* variant: the delete is sent without the force flag
InDelete_Unforced(o, b, rej) ==
  LET text == o.cur.tte_customer_uri
      u == KeyOf(text)
      req == BsDeleteReq(u, FALSE)
  IN IF ~Truthy(text)
     THEN [o |-> Advance(o), bs |-> b, wrote |-> {}]
     ELSE [o |-> Advance([o EXCEPT !.log = Append(@, req)]),
           bs |-> IF BsPatchStatus(b, rej, u) = 200
                  THEN [b EXCEPT ![u].deleted = TRUE]
                  ELSE b,
           wrote |-> IF BsPatchStatus(b, rej, u) = 200 THEN {u} ELSE {}]

\* variant: the exception of a delete without URL ends the task
InDelete_NoUrlUncaught(o, b, rej) ==
  LET text == o.cur.tte_customer_uri
      u == KeyOf(text)
      req == BsDeleteReq(u, TRUE)
  IN IF ~Truthy(text)
     THEN [o |-> [o EXCEPT !.pc = "crashed"], bs |-> b, wrote |-> {}]
     ELSE [o |-> Advance([o EXCEPT !.log = Append(@, req)]),
           bs |-> IF BsPatchStatus(b, rej, u) = 200
                  THEN [b EXCEPT ![u].deleted = TRUE]
                  ELSE b,
           wrote |-> IF BsPatchStatus(b, rej, u) = 200 THEN {u} ELSE {}]

\* tte_delete_customer(uri, force=True); requests.delete of no URL raises
\* before anything is sent
InDelete(o, b, rej) ==
  LET text == o.cur.tte_customer_uri
      u == KeyOf(text)
      req == BsDeleteReq(u, TRUE)
  IN IF ~Truthy(text)
     THEN [o |-> Advance(o), bs |-> b, wrote |-> {}]
     ELSE [o |-> Advance([o EXCEPT !.log = Append(@, req)]),
           bs |-> IF BsPatchStatus(b, rej, u) = 200
                  THEN [b EXCEPT ![u].deleted = TRUE]
                  ELSE b,
           wrote |-> IF BsPatchStatus(b, rej, u) = 200 THEN {u} ELSE {}]

\* ----------------------------------------------------------- inbound sweep
\* inbound_sync_all(track): inbound_sync(track, sync_deletions=False), then
\* inbound_sync(track, sync_deletions=True)

RECURSIVE CrmListFrom(_, _, _)
CrmListFrom(c, i, archived) ==
  IF i > MaxContacts THEN <<>>
  ELSE (IF c[Hid(i)].exists /\ c[Hid(i)].archived = archived
        THEN <<c[Hid(i)]>> ELSE <<>>) \o CrmListFrom(c, i + 1, archived)

\* get_hubspot_contact_page: ([], None) for a page without results
get_hubspot_contact_page(c, after, sync_deletions) ==
  LET all == CrmListFrom(c, 1, sync_deletions)
      from == IF after = 0 THEN 1 ELSE after
      to == IF from + PageSize - 1 < Len(all) THEN from + PageSize - 1
            ELSE Len(all)
  IN [results |-> SubSeq(all, from, to),
      next |-> IF to < Len(all) THEN to + 1 ELSE 0]

\* the branch inbound_sync_page takes for a contact of the page
InSweepBranch(contact, d) ==
  IF contact.archived
  THEN IF HasUri(d) THEN "delete" ELSE "skip"
  ELSE IF ~HasUri(d) THEN "create"
       ELSE IF BlankEmail(contact.props) THEN "gate" ELSE "bs"

IswStart ==
  /\ isw.pc \in {"idle", "done"}
  /\ isw.round < MaxSweeps
  /\ isw' = [TaskIdle("isw") EXCEPT !.pc = "fetch", !.round = isw.round + 1]
  /\ UNCHANGED <<bs, crm, cfg, osw, oev, iev, bsDue, crmDue>>

\* an ApiException of the page fetch is caught in get_hubspot_contact_page,
\* which then returns ([], None)
IswFetch ==
  /\ isw.pc = "fetch"
  /\ LET page == IF PageFetch("crm", isw.cursor) \in fetchFail
                 THEN [results |-> <<>>, next |-> 0]
                 ELSE get_hubspot_contact_page(crm, isw.cursor, isw.del)
         o == [isw EXCEPT !.page = page.results, !.next = page.next,
                          !.i = 0, !.fin = FALSE]
     IN isw' = IF page.results = <<>>
               THEN [Advance(o) EXCEPT !.fin = FALSE]
               ELSE [o EXCEPT !.pc = "rec", !.i = 1]
  /\ UNCHANGED <<bs, crm, cfg, osw, oev, iev, bsDue, crmDue>>

\* lines 88-122: convert_to_tte_customer_data and the choice of the branch
IswRec ==
  /\ isw.pc = "rec"
  /\ \E t \in Times :
       LET contact == isw.page[isw.i]
           d == convert_to_tte_customer_data(contact.props, t)
           br == InSweepBranch(contact, d)
           o == [Begin(isw, KeyOf(contact.props.hs_object_id))
                   EXCEPT !.cur = contact.props, !.data = d, !.br = br]
       IN isw' = IF br = "skip" THEN Advance(o) ELSE [o EXCEPT !.pc = br]
  /\ UNCHANGED <<bs, crm, cfg, osw, oev, iev, bsDue, crmDue>>

IswGate ==
  /\ isw.pc = "gate"
  /\ isw' = InGate(isw, bs)
  /\ UNCHANGED <<bs, crm, cfg, osw, oev, iev, bsDue, crmDue>>

IswBs ==
  /\ isw.pc = "bs"
  /\ LET r == InBs(isw, bs, bsReject) IN isw' = r.o /\ bs' = r.bs /\ BsNotify(r.wrote)
  /\ UNCHANGED <<crm, cfg, osw, oev, iev, crmDue>>

IswCrm ==
  /\ isw.pc = "crm"
  /\ LET r == InCrm(isw, crm, crmReject) IN isw' = r.o /\ crm' = r.crm
  /\ CrmNotify
  /\ UNCHANGED <<bs, cfg, osw, oev, iev, bsDue>>

IswCreate ==
  /\ isw.pc = "create"
  /\ "new" \notin bsReject => FreeUri(bs) # ""
  /\ LET r == InCreate(isw, bs, bsReject, track) IN isw' = r.o /\ bs' = r.bs /\ BsNotify(r.wrote)
  /\ UNCHANGED <<crm, cfg, osw, oev, iev, crmDue>>

IswDelete ==
  /\ isw.pc = "delete"
  /\ LET r == InDelete(isw, bs, bsReject) IN isw' = r.o /\ bs' = r.bs /\ BsNotify(r.wrote)
  /\ UNCHANGED <<crm, cfg, osw, oev, iev, crmDue>>

\* -------------------------------------------- inbound notification task
\* handle_hubspot_notifications(notifications): handle_hubspot_notification
\* for each in turn; it catches ApiException and RequestException

\* variant: a change of a contact without a cross-reference creates the
\* customer, as the sweep does
InEventBranch_CreateUnlinked(type, props, d) ==
  IF type = "contact.propertyChange"
  THEN IF HasUri(d)
       THEN IF BlankEmail(props) THEN "gate" ELSE "bs"
       ELSE "create"
  ELSE IF type = "contact.creation"
       THEN IF HasUri(d) THEN "skip" ELSE "create"
       ELSE "delete"

\* the branch handle_hubspot_notification takes once it has read the contact
InEventBranch(type, props, d) ==
  IF type = "contact.propertyChange"
  THEN IF HasUri(d)
       THEN IF BlankEmail(props) THEN "gate" ELSE "bs"
       ELSE "skip"
  ELSE IF type = "contact.creation"
       THEN IF HasUri(d) THEN "skip" ELSE "create"
       ELSE "delete"

\* get_hubspot_contact_by_id(objectId, deleted=...), then the branch
IevFetch ==
  /\ iev.pc = "rec"
  /\ \E t \in Times :
       LET n == iev.page[iev.i]
           h == n.objectId
           found == h \in HIDS /\ crm[h].exists
                    /\ crm[h].archived = (n.subscriptionType = "contact.deletion")
           d == convert_to_tte_customer_data(crm[h].props, t)
           br == InEventBranch(n.subscriptionType, crm[h].props, d)
           o == [Begin(iev, h) EXCEPT !.cur = crm[h].props, !.data = d,
                                      !.br = br]
       IN iev' = IF ~found THEN Advance(Begin(iev, h))
                 ELSE IF br = "skip" THEN Advance(o) ELSE [o EXCEPT !.pc = br]
  /\ UNCHANGED <<bs, crm, cfg, osw, oev, isw, bsDue, crmDue>>

IevGate ==
  /\ iev.pc = "gate"
  /\ iev' = InGate(iev, bs)
  /\ UNCHANGED <<bs, crm, cfg, osw, oev, isw, bsDue, crmDue>>

IevBs ==
  /\ iev.pc = "bs"
  /\ LET r == InBs(iev, bs, bsReject) IN iev' = r.o /\ bs' = r.bs /\ BsNotify(r.wrote)
  /\ UNCHANGED <<crm, cfg, osw, oev, isw, crmDue>>

IevCrm ==
  /\ iev.pc = "crm"
  /\ LET r == InCrm(iev, crm, crmReject) IN iev' = r.o /\ crm' = r.crm
  /\ CrmNotify
  /\ UNCHANGED <<bs, cfg, osw, oev, isw, bsDue>>

\* inbound_sync_create_customer(tte_customer_data, True)
IevCreate ==
  /\ iev.pc = "create"
  /\ "new" \notin bsReject => FreeUri(bs) # ""
  /\ LET r == InCreate(iev, bs, bsReject, TRUE) IN iev' = r.o /\ bs' = r.bs /\ BsNotify(r.wrote)
  /\ UNCHANGED <<crm, cfg, osw, oev, isw, crmDue>>

IevDelete ==
  /\ iev.pc = "delete"
  /\ LET r == InDelete(iev, bs, bsReject) IN iev' = r.o /\ bs' = r.bs /\ BsNotify(r.wrote)
  /\ UNCHANGED <<crm, cfg, osw, oev, isw, crmDue>>

\* ---------------------------------------------------------- initial data
U1 == Uri(1)
U2 == Uri(2)
U3 == Uri(3)
H1 == Hid(1)
H2 == Hid(2)

\* a contact holding what an outbound sync of customer c at time t stores
ContactOf(h, c, t) ==
  [exists |-> TRUE, archived |-> FALSE,
   props |-> CrmMerged(NoProps(h),
               block_outbound_sync_for_invalid_fields(
                 convert_to_hubspot_data(c, t), t))]

\* a contact entered by a CRM user
UserContact(h, first, last, email, uri) ==
  [exists |-> TRUE, archived |-> FALSE,
   props |-> [NoProps(h) EXCEPT !.firstname = first, !.lastname = last,
                                !.email = email, !.tte_customer_uri = uri]]

Bob ==
  Customer(U2, AdaLovelace, <<OkEmail, <<"bob@x.com">>>>, <<Phone1, Phone2>>,
           <<H2>>)
Anon == Customer(U3, <<>>, <<>>, <<>>, Null)

\* customer U1 as the sweeps and syncs may find it
FirstCustomers ==
  {[Customer(U1, AdaLovelace, e, <<>>, x) EXCEPT !.deleted = d] :
     e \in {<<OkEmail>>, <<BadEmail>>, <<>>},
     x \in {Null, <<H1>>, <<H1, IDSEP, H2>>},
     d \in BOOLEAN}

InitStores(c1) ==
  /\ bs = [u \in URIS |->
             IF u = U1 THEN c1 ELSE IF u = U2 THEN Bob
             ELSE IF u = U3 THEN Anon ELSE NoCustomer(u)]
  /\ crm = [h \in HIDS |->
              IF h = H1 /\ c1.extid # Null
              THEN UserContact(H1, Ada, Null, OkEmail, <<U1>>)
              ELSE IF h = H2 THEN ContactOf(H2, Bob, 1)
              ELSE NoContact(h)]

\* ------------------------------------- the webhook setup of the CRM app
\* the subscriptions the app may hold before the setup, in the order
\* subscriptions_api.get_all returns them
OldSubscriptions == <<"s1", "s2">>

\* config.HUBSPOT_SUBSCRIPTIONS in the order register_hubspot_subscriptions
\* walks it; property_name "" stands for None
HubspotRegistrations ==
  <<[event_type |-> "contact.creation", property_name |-> ""],
    [event_type |-> "contact.deletion", property_name |-> ""],
    [event_type |-> "contact.propertyChange", property_name |-> "firstname"],
    [event_type |-> "contact.propertyChange", property_name |-> "lastname"],
    [event_type |-> "contact.propertyChange", property_name |-> "email"],
    [event_type |-> "contact.propertyChange", property_name |-> "phone"],
    [event_type |-> "contact.propertyChange",
     property_name |-> "tte_customer_secondary_emails"],
    [event_type |-> "contact.propertyChange",
     property_name |-> "tte_customer_secondary_phone"]>>

\* the id of the subscription a registration makes
SubId(r) == r.event_type \o ":" \o r.property_name

\* no setup is run
HsOff ==
  [pc |-> "off", old |-> {}, subs |-> {}, todo |-> <<>>, left |-> <<>>,
   made |-> <<>>, url |-> "", fail |-> {}]
\* the app holds the subscriptions old; the requests named in fail are
\* answered with an error
HsIdle(old, fail) ==
  [HsOff EXCEPT !.pc = "idle", !.old = old, !.subs = old, !.fail = fail]

\* get_subscription_ids: the ApiException is printed and raised again
get_subscription_ids(h) ==
  IF "get_all" \in h.fail
  THEN [h EXCEPT !.pc = "raised"]
  ELSE LET ids == SelectSeq(OldSubscriptions, LAMBDA id : id \in h.subs)
       IN [h EXCEPT !.todo = ids,
                    !.pc = IF ids = <<>> THEN "configure" ELSE "archive"]

\* variant: the ApiException of an archive is printed and the loop goes on
remove_old_subscription_Swallowed(h) ==
  LET id == Head(h.todo)
  IN [h EXCEPT !.subs = IF ("archive:" \o id) \in h.fail THEN @ ELSE @ \ {id},
               !.todo = Tail(@),
               !.pc = IF Tail(h.todo) = <<>> THEN "configure" ELSE "archive"]

\* remove_old_subscriptions, one turn of its loop: the ApiException of an
\* archive is printed and raised again
remove_old_subscription(h) ==
  LET id == Head(h.todo)
  IN IF ("archive:" \o id) \in h.fail
     THEN [h EXCEPT !.pc = "raised"]
     ELSE [h EXCEPT !.subs = @ \ {id}, !.todo = Tail(@),
                    !.pc = IF Tail(h.todo) = <<>> THEN "configure"
                           ELSE "archive"]

\* configure_webhooks: settings_api.clear and configure; an ApiException is
\* printed and the registrations follow all the same
configure_webhooks(h) ==
  [h EXCEPT !.url = IF "configure" \in h.fail THEN @ ELSE "callback_url",
            !.left = HubspotRegistrations, !.pc = "create"]

\* register_hubspot_subscription: an ApiException is printed, and the next
\* subscription is registered
register_hubspot_subscription(h) ==
  LET r == Head(h.left)
      ok == ("create:" \o r.property_name) \notin h.fail
  IN [h EXCEPT !.subs = IF ok THEN @ \cup {SubId(r)} ELSE @,
               !.made = IF ok THEN Append(@, r) ELSE @,
               !.left = Tail(@),
               !.pc = IF Tail(h.left) = <<>> THEN "done" ELSE "create"]

\* setup_hubspot_subscriptions is called
HsStart ==
  /\ hsub.pc = "idle"
  /\ hsub' = [hsub EXCEPT !.pc = "get_all"]
  /\ UNCHANGED <<sync, net, web, tsub>>

HsGetAll ==
  /\ hsub.pc = "get_all"
  /\ hsub' = get_subscription_ids(hsub)
  /\ UNCHANGED <<sync, net, web, tsub>>

HsArchive ==
  /\ hsub.pc = "archive"
  /\ hsub' = remove_old_subscription(hsub)
  /\ UNCHANGED <<sync, net, web, tsub>>

HsConfigure ==
  /\ hsub.pc = "configure"
  /\ hsub' = configure_webhooks(hsub)
  /\ UNCHANGED <<sync, net, web, tsub>>

HsRegister ==
  /\ hsub.pc = "create"
  /\ hsub' = register_hubspot_subscription(hsub)
  /\ UNCHANGED <<sync, net, web, tsub>>

\* ------------------------------------------------- the calls of the BS client
\* the functions of tte_client that send a request to the BS
BsClientFunctions ==
  {"tte_get_customer_page", "tte_get_customer", "tte_create_customer",
   "tte_update_customer", "tte_delete_customer", "get_subscriptions",
   "delete_subscription", "register_subscription"}

\* the functions a process calls: a sweep (outbound_sync_all,
\* inbound_sync_all), the process of a notification (tte_sync_customers,
\* handle_hubspot_notifications), the setup (setup_tte_subscriptions)
CallsOf(p) ==
  IF p = "sweep"
  THEN {"tte_get_customer_page", "tte_get_customer", "tte_create_customer",
        "tte_update_customer", "tte_delete_customer"}
  ELSE IF p = "hook"
  THEN {"tte_get_customer", "tte_create_customer", "tte_update_customer",
        "tte_delete_customer"}
  ELSE {"get_subscriptions", "delete_subscription", "register_subscription"}

\* variant: tte_delete_customer sends its request without get_tte_headers
CallsHeaders_NotDelete(fn) ==
  fn \in BsClientFunctions \ {"tte_delete_customer"}

\* the function starts with auth_headers = get_tte_headers()
CallsHeaders(fn) == fn \in BsClientFunctions

NoRequest == [proc |-> "", fn |-> "", own |-> 0, since |-> 0]
ProcIdle == [pc |-> "idle", fn |-> "", own |-> 0]
ProcOff == [pc |-> "off", fn |-> "", own |-> 0]
Processes == {"sweep", "hook", "setup"}

\* no process calls the BS client
NetOff ==
  [procs |-> [p \in Processes |-> ProcOff], since |-> 0, sent |-> 0,
   last |-> NoRequest]
\* the processes of running are at work
NetOf(running) ==
  [NetOff EXCEPT
     !.procs = [p \in Processes |-> IF p \in running THEN ProcIdle ELSE ProcOff]]

\* process p calls the client function fn
BsCall(p, fn) ==
  /\ net.procs[p].pc = "idle"
  /\ net.sent < MaxCalls
  /\ fn \in CallsOf(p)
  /\ net' = [net EXCEPT !.procs[p].fn = fn,
                        !.procs[p].pc = IF CallsHeaders(fn) THEN "headers"
                                        ELSE "send"]
  /\ UNCHANGED <<sync, hsub, web, tsub>>

\* get_tte_headers: time.sleep(1), the rate-limit delay
get_tte_headers(p) ==
  /\ net.procs[p].pc = "headers"
  /\ net' = [net EXCEPT !.procs[p].pc = "send", !.procs[p].own = @ + 1,
                        !.since = @ + 1]
  /\ UNCHANGED <<sync, hsub, web, tsub>>

\* requests.get, post, patch or delete: the request is sent to the BS
BsSend(p) ==
  /\ net.procs[p].pc = "send"
  /\ net' = [net EXCEPT
               !.last = [proc |-> p, fn |-> net.procs[p].fn,
                         own |-> net.procs[p].own, since |-> net.since],
               !.procs[p] = ProcIdle, !.since = 0, !.sent = @ + 1]
  /\ UNCHANGED <<sync, hsub, web, tsub>>

\* ---------------------------------------------- the subscriptions of the BS
\* setup_tte_subscriptions (tte_register_subscription.py) and the subscription
\* calls of tte_client.py. The BS keeps the subscriptions of the organisation
\* as a list and names each new one with a resource URI of its own.

SUBSCRIPTION_ROUTE == "/tte/enterprise_api/webhook/customers/"
\* get_subscription_url: WEBHOOK_HOST followed by the route
get_subscription_url == "WEBHOOK_HOST" \o SUBSCRIPTION_ROUTE

TteSubscription(uri, scope, url) ==
  [resource_uri |-> uri, scope |-> scope, callback_url |-> url]

\* no setup is run
TsOff ==
  [pc |-> "off", subs |-> <<>>, next |-> 1, deleted |-> {}, runs |-> 0,
   fail |-> 0, sent |-> <<>>, todo |-> <<>>, before |-> <<>>,
   again |-> FALSE]
\* the BS holds the subscriptions subs, named 1 .. Len(subs)
TsIdle(subs) ==
  [TsOff EXCEPT !.pc = "idle", !.subs = subs, !.next = Len(subs) + 1]

\* response.raise_for_status() of the request now sent: the BS answers the
\* request of this run numbered fail with an error status
TsRaises(t) == t.fail = Len(t.sent) + 1

\* get_subscriptions: GET of the list; response.json() is returned
get_subscriptions(t) ==
  IF TsRaises(t)
  THEN [t EXCEPT !.sent = Append(@, "get"), !.pc = "raised"]
  ELSE [t EXCEPT !.sent = Append(@, "get"), !.todo = t.subs, !.pc = "loop"]

\* delete_subscription: DELETE of the subscription's resource URI
delete_subscription(t, tte_subscription_uri) ==
  IF TsRaises(t)
  THEN [t EXCEPT !.sent = Append(@, "delete"), !.pc = "raised"]
  ELSE [t EXCEPT !.sent = Append(@, "delete"),
                 !.deleted = @ \cup {tte_subscription_uri},
                 !.subs = SelectSeq(@, LAMBDA s :
                            s.resource_uri # tte_subscription_uri)]

\* variant: the subscriptions of every scope are deleted
OldSubscription_AnyScope(subscription) ==
  subscription.scope \in {"customer", "staff"}

\* delete_old_subscriptions: if subscription["scope"] == "customer"
OldSubscription(subscription) == subscription.scope = "customer"

\* delete_old_subscriptions, one turn of its loop over the results
delete_old_subscriptions(t) ==
  LET subscription == Head(t.todo)
      d == IF OldSubscription(subscription)
           THEN delete_subscription(t, subscription.resource_uri)
           ELSE t
  IN IF d.pc = "raised" THEN d ELSE [d EXCEPT !.todo = Tail(@)]

\* register_subscription: POST of callback_url with scope "customer"
register_subscription(t, callback_url) ==
  IF TsRaises(t)
  THEN [t EXCEPT !.sent = Append(@, "post"), !.pc = "raised"]
  ELSE [t EXCEPT !.sent = Append(@, "post"),
                 !.subs = Append(@, TteSubscription(t.next, "customer",
                                                    callback_url)),
                 !.next = @ + 1, !.pc = "done"]

\* setup_tte_subscriptions is called, for the first time or once more
TsStart ==
  /\ tsub.pc \in {"idle", "done", "raised"}
  /\ tsub.runs < MaxRuns
  /\ \E fail \in 0..(MaxSubs + 2) :
       tsub' = [tsub EXCEPT !.pc = "list", !.runs = @ + 1, !.fail = fail,
                            !.sent = <<>>, !.todo = <<>>,
                            !.before = tsub.subs,
                            !.again = (tsub.pc = "done")]
  /\ UNCHANGED <<sync, hsub, net, web>>

TsList ==
  /\ tsub.pc = "list"
  /\ tsub' = get_subscriptions(tsub)
  /\ UNCHANGED <<sync, hsub, net, web>>

TsDeleteOld ==
  /\ tsub.pc = "loop" /\ tsub.todo # <<>>
  /\ tsub' = delete_old_subscriptions(tsub)
  /\ UNCHANGED <<sync, hsub, net, web>>

TsRegister ==
  /\ tsub.pc = "loop" /\ tsub.todo = <<>>
  /\ tsub' = register_subscription(tsub, get_subscription_url)
  /\ UNCHANGED <<sync, hsub, net, web>>

\* ------------------------------------------------------ the webhook handlers
\* customer_webhook (tte_subscriptions.py) and hubspot_webhook
\* (hubspot_subscriptions.py): the request is read, a process is started for
\* its records, and "OK", 200 is returned.

\* a notification of the BS: a dictionary holding the keys named
TteNotification(keys, scope, items) ==
  [k \in keys |-> IF k = "scope" THEN scope ELSE items]
NoNotification == TteNotification({}, "", <<>>)

\* no process: pc is "off"; i is the place of the loop in the list, running
\* the places whose single-record sync is under way, begun the places in the
\* order their syncs began
NoProcess == [pc |-> "off", i |-> 0, running |-> {}, begun |-> <<>>]

\* a request the BS sent, and one the CRM sent, not yet handled
TteDelivery(n) ==
  [src |-> "bs", notification |-> n, notifications |-> <<>>, pc |-> "due",
   resp |-> 0, procs |-> 0, task |-> NoProcess]
HubspotDelivery(l) ==
  [src |-> "crm", notification |-> NoNotification, notifications |-> l,
   pc |-> "due", resp |-> 0, procs |-> 0, task |-> NoProcess]
\* no request is received
WebOff == [k \in 1..MaxDeliveries |-> [HubspotDelivery(<<>>) EXCEPT !.pc = "off"]]

\* the number of records of a request
RecordCount(d) ==
  IF d.src = "crm" THEN Len(d.notifications)
  ELSE IF "items" \in DOMAIN d.notification
       THEN Len(d.notification["items"]) ELSE 0

\* variant: the scope of the notification is not looked at
customer_webhook_starts_AnyScope(n) == "items" \in DOMAIN n

\* customer_webhook, lines 118-120: the tests before the process is started
customer_webhook_starts(n) ==
  /\ "scope" \in DOMAIN n /\ n["scope"] = "customer"
  /\ "items" \in DOMAIN n

\* variant: the sync of the next record is started without waiting for the
\* one before
NextReady_NoWait(t) == TRUE

\* the for loop of tte_sync_customers and of handle_hubspot_notifications
\* calls the sync of the next record when the one before has returned
NextReady(t) == t.running = {}

\* customer_webhook up to process.start()
customer_webhook(k) ==
  /\ web[k].src = "bs" /\ web[k].pc = "due"
  /\ web' = [web EXCEPT ![k] =
       IF customer_webhook_starts(web[k].notification)
       THEN [@ EXCEPT !.pc = "respond", !.procs = @ + 1, !.task.pc = "run"]
       ELSE [@ EXCEPT !.pc = "respond"]]
  /\ UNCHANGED <<sync, hsub, net, tsub>>

\* hubspot_webhook up to process.start()
hubspot_webhook(k) ==
  /\ web[k].src = "crm" /\ web[k].pc = "due"
  /\ web' = [web EXCEPT ![k].pc = "respond", ![k].procs = @ + 1,
                        ![k].task.pc = "run"]
  /\ UNCHANGED <<sync, hsub, net, tsub>>

\* return "OK", 200
WebRespond(k) ==
  /\ web[k].pc = "respond"
  /\ web' = [web EXCEPT ![k].pc = "answered", ![k].resp = 200]
  /\ UNCHANGED <<sync, hsub, net, tsub>>

\* the process calls tte_sync_customer, or handle_hubspot_notification, for
\* the next record of its list
SyncBegin(k) ==
  /\ web[k].task.pc = "run"
  /\ web[k].task.i < RecordCount(web[k])
  /\ NextReady(web[k].task)
  /\ web' = [web EXCEPT ![k].task.i = @ + 1,
                        ![k].task.running = @ \cup {web[k].task.i + 1},
                        ![k].task.begun = Append(@, web[k].task.i + 1)]
  /\ UNCHANGED <<sync, hsub, net, tsub>>

\* the call returns, or raises an exception the loop catches
SyncEnd(k) ==
  /\ web[k].task.pc = "run"
  /\ \E j \in web[k].task.running :
       web' = [web EXCEPT ![k].task.running = @ \ {j}]
  /\ UNCHANGED <<sync, hsub, net, tsub>>

\* tte_sync_customer raises an exception that is no RequestException (the
\* ApiException of get_hubspot_contact_by_id): the process ends
SyncRaise(k) ==
  /\ web[k].src = "bs" /\ web[k].task.pc = "run"
  /\ web[k].task.running # {}
  /\ web' = [web EXCEPT ![k].task.running = {}, ![k].task.pc = "crashed"]
  /\ UNCHANGED <<sync, hsub, net, tsub>>

\* the loop is over: the process ends
TaskExit(k) ==
  /\ web[k].task.pc = "run"
  /\ web[k].task.i = RecordCount(web[k]) /\ web[k].task.running = {}
  /\ web' = [web EXCEPT ![k].task.pc = "done"]
  /\ UNCHANGED <<sync, hsub, net, tsub>>

\* neither the setup, nor a process calling the BS client, nor a webhook
\* request is modelled
NoSetup == hsub = HsOff /\ net = NetOff /\ web = WebOff /\ tsub = TsOff

\* no webhook subscription is registered and no end user is at work
NoHooks == hooks = FALSE /\ edits = 0 /\ bsDue = {} /\ crmDue = {}

\* no function is applied on its own
NoCall == call = [fn |-> "", args |-> <<>>] /\ ret = <<>>

\* every read is answered
NoFetchFail == fetchFail = {}

\* ------------------------------------------- the outbound sweep on its own
InitOutSweep ==
  /\ \E c1 \in FirstCustomers : InitStores(c1)
  /\ track \in BOOLEAN
  /\ bsReject \in {{}, {U1}}
  /\ crmReject \in {{}, {"new"}, {H1}}
  /\ osw = TaskIdle("osw")
  /\ oev = TaskOff /\ isw = TaskOff /\ iev = TaskOff
  /\ NoHooks /\ NoCall /\ NoFetchFail /\ NoSetup

NextOutSweep == OutStart \/ OutFetchPage \/ OutRecCrm \/ OutRecBs

SpecOutSweep == InitOutSweep /\ [][NextOutSweep]_vars

\* --------------------------------- one task at a time, in either direction
H3 == Hid(3)
H4 == Hid(4)

\* contact H1 as the sweeps and syncs may find it: none, linked to U1 (with
\* an email or without), not linked, archived, as an outbound sync left it
\* when U1's primary email was invalid
FirstContacts ==
  {NoContact(H1),
   ContactOf(H1, Customer(U1, AdaLovelace, <<BadEmail>>, <<>>, <<H1>>), 1),
   UserContact(H1, Ada, Null, OkEmail, <<U1>>),
   UserContact(H1, Ada, Null, Null, <<U1>>),
   UserContact(H1, Ada, Null, OkEmail, Null),
   [UserContact(H1, Ada, Null, OkEmail, <<U1>>) EXCEPT !.archived = TRUE],
   [UserContact(H1, Ada, Null, OkEmail, Null) EXCEPT !.archived = TRUE]}

\* a contact a CRM user entered and no sync has seen yet
Cy == UserContact(H3, <<"Cy">>, Null, Null, Null)

\* the stores an outbound task starts from ...
OutStores(c1, k1) ==
  /\ bs = [u \in URIS |->
             IF u = U1 THEN c1 ELSE IF u = U2 THEN Bob
             ELSE IF u = U3 THEN Anon ELSE NoCustomer(u)]
  /\ crm = [h \in HIDS |->
              IF h = H1 THEN k1
              ELSE IF h = H2 THEN ContactOf(H2, Bob, 1) ELSE NoContact(h)]
\* ... and an inbound task
InStores(c1, k1) ==
  /\ bs = [u \in URIS |->
             IF u = U1 THEN c1 ELSE IF u = U2 THEN Bob ELSE NoCustomer(u)]
  /\ crm = [h \in HIDS |->
              IF h = H1 THEN k1
              ELSE IF h = H2 THEN ContactOf(H2, Bob, 1)
              ELSE IF h = H3 THEN Cy ELSE NoContact(h)]

\* customer_webhook: notification["items"]
OutBatches == {<<U1, U2>>, <<U1, U1>>, <<U2, U2>>}

\* hubspot_webhook: request.get_json()
InBatches ==
  {<<Notification("contact.propertyChange", H1),
     Notification("contact.propertyChange", H2)>>,
   <<Notification("contact.propertyChange", H1),
     Notification("contact.propertyChange", H1)>>,
   <<Notification("contact.propertyChange", H2),
     Notification("contact.propertyChange", H2)>>,
   <<Notification("contact.creation", H3),
     Notification("contact.creation", H1)>>,
   <<Notification("contact.deletion", H1),
     Notification("contact.propertyChange", H3)>>,
   <<Notification("contact.propertyChange", H4),
     Notification("contact.creation", H2)>>}

InitSeq ==
  /\ bsReject \in {{}, {U1}, {"new"}}
  /\ crmReject \in {{}, {"new"}, {H1}}
  /\ NoHooks /\ NoCall /\ NoFetchFail /\ NoSetup
  /\ \E c1 \in FirstCustomers, k1 \in FirstContacts,
        who \in {"osw", "oev", "isw", "iev"} :
       /\ IF who \in {"osw", "oev"}
          THEN OutStores(c1, k1) ELSE InStores(c1, k1)
       /\ IF who \in {"osw", "isw"}
          THEN track \in BOOLEAN ELSE track = TRUE
       /\ osw = IF who = "osw" THEN TaskIdle("osw") ELSE TaskOff
       /\ isw = IF who = "isw" THEN TaskIdle("isw") ELSE TaskOff
       /\ IF who = "oev"
          THEN \E b \in OutBatches : oev = TaskBatch("oev", b)
          ELSE oev = TaskOff
       /\ IF who = "iev"
          THEN \E b \in InBatches : iev = TaskBatch("iev", b)
          ELSE iev = TaskOff

NextSeq ==
  \/ OutStart \/ OutFetchPage \/ OutRecCrm \/ OutRecBs
  \/ OevFetch \/ OevGet \/ OevCrm \/ OevBs \/ OevDel
  \/ IswStart \/ IswFetch \/ IswRec \/ IswGate \/ IswBs \/ IswCrm
  \/ IswCreate \/ IswDelete
  \/ IevFetch \/ IevGate \/ IevBs \/ IevCrm \/ IevCreate \/ IevDelete

SpecSeq == InitSeq /\ [][NextSeq]_vars

\* ------------------------------- one task at a time, with reads that fail
\* the reads that may fail: the GET of one customer, the fetch of the first
\* or of the second page of either system
FetchFails ==
  {{}, {U1}, {U2},
   {PageFetch("bs", 0)}, {PageFetch("bs", PageSize + 1)},
   {PageFetch("crm", 0)}, {PageFetch("crm", PageSize + 1)}}

\* customer U1 linked to H1 (live or deleted), or not yet in the BS
FetchCustomers ==
  {Customer(U1, AdaLovelace, <<OkEmail>>, <<>>, <<H1>>),
   [Customer(U1, AdaLovelace, <<OkEmail>>, <<>>, <<H1>>)
      EXCEPT !.deleted = TRUE],
   NoCustomer(U1)}

\* contact H1 linked to U1 (with an email or without), or archived
FetchContacts ==
  {UserContact(H1, Ada, Null, OkEmail, <<U1>>),
   UserContact(H1, Ada, Null, Null, <<U1>>),
   [UserContact(H1, Ada, Null, OkEmail, <<U1>>) EXCEPT !.archived = TRUE]}

InitFetch ==
  /\ fetchFail \in FetchFails
  /\ bsReject \in {{}, {U1}}
  /\ crmReject = {}
  /\ track = TRUE
  /\ NoHooks /\ NoCall /\ NoSetup
  /\ \E c1 \in FetchCustomers, k1 \in FetchContacts,
        who \in {"osw", "oev", "isw", "iev"} :
       /\ IF who \in {"osw", "oev"}
          THEN OutStores(c1, k1) ELSE InStores(c1, k1)
       /\ osw = IF who = "osw" THEN TaskIdle("osw") ELSE TaskOff
       /\ isw = IF who = "isw" THEN TaskIdle("isw") ELSE TaskOff
       /\ IF who = "oev"
          THEN \E b \in OutBatches : oev = TaskBatch("oev", b)
          ELSE oev = TaskOff
       /\ IF who = "iev"
          THEN \E b \in InBatches : iev = TaskBatch("iev", b)
          ELSE iev = TaskOff

SpecFetch == InitFetch /\ [][NextSeq]_vars

\* ------------------------------------------- a sweep that runs to its end
\* an account without customers, an account without contacts
EmptyBs == [u \in URIS |-> NoCustomer(u)]
EmptyCrm == [h \in HIDS |-> NoContact(h)]

InitSweep ==
  /\ \/ fetchFail = {} /\ bsReject \in {{}, {U1}}
     \/ /\ fetchFail \in {{PageFetch("bs", PageSize + 1)},
                          {PageFetch("crm", PageSize + 1)}}
        /\ bsReject = {}
  /\ crmReject = {}
  /\ track = TRUE
  /\ NoHooks /\ NoCall /\ NoSetup
  /\ oev = TaskOff /\ iev = TaskOff
  /\ \E who \in {"osw", "isw"} :
       /\ osw = IF who = "osw" THEN TaskIdle("osw") ELSE TaskOff
       /\ isw = IF who = "isw" THEN TaskIdle("isw") ELSE TaskOff
       /\ \/ bs = EmptyBs /\ crm = EmptyCrm
          \/ \E c1 \in FetchCustomers, k1 \in FetchContacts :
               IF who = "osw" THEN OutStores(c1, k1) ELSE InStores(c1, k1)

NextSweep ==
  \/ OutStart \/ OutFetchPage \/ OutRecCrm \/ OutRecBs
  \/ IswStart \/ IswFetch \/ IswRec \/ IswGate \/ IswBs \/ IswCrm
  \/ IswCreate \/ IswDelete

\* a sweep started runs on
SpecSweep == InitSweep /\ [][NextSweep]_vars /\ WF_vars(NextSweep)

\* ------------------------------------------- setup_hubspot_subscriptions
\* the requests of the setup that may be answered with an error
SetupFails ==
  {{}, {"get_all"}, {"archive:s1"}, {"archive:s2"}, {"configure"},
   {"create:email"}, {"archive:s2", "create:email"}}

\* the syncs are at rest
SyncOff ==
  /\ bs = EmptyBs /\ crm = EmptyCrm
  /\ bsReject = {} /\ crmReject = {} /\ track = TRUE
  /\ osw = TaskOff /\ oev = TaskOff /\ isw = TaskOff /\ iev = TaskOff
  /\ NoHooks /\ NoCall /\ NoFetchFail

InitSetup ==
  /\ SyncOff
  /\ net = NetOff /\ web = WebOff /\ tsub = TsOff
  /\ \E old \in SUBSET {"s1", "s2"}, fail \in SetupFails :
       hsub = HsIdle(old, fail)

NextSetup == HsStart \/ HsGetAll \/ HsArchive \/ HsConfigure \/ HsRegister

SpecSetup == InitSetup /\ [][NextSetup]_vars

\* ------------------------------------------------ requests sent to the BS
\* one process on its own, or the process of a notification next to a sweep
InitBsCalls ==
  /\ SyncOff
  /\ hsub = HsOff /\ web = WebOff /\ tsub = TsOff
  /\ \E running \in {{"sweep"}, {"hook"}, {"setup"}, {"sweep", "hook"}} :
       net = NetOf(running)

NextBsCalls ==
  \E p \in Processes :
    \/ \E fn \in BsClientFunctions : BsCall(p, fn)
    \/ get_tte_headers(p)
    \/ BsSend(p)

SpecBsCalls == InitBsCalls /\ [][NextBsCalls]_vars

\* ------------------------------------------------ webhook requests received
\* what the BS may send: any scope or none, a list of items or none
TteNotifications ==
  {NoNotification,
   TteNotification({"items"}, "", <<U1, U2>>),
   TteNotification({"scope"}, "customer", <<>>),
   TteNotification({"scope", "items"}, "customer", <<>>),
   TteNotification({"scope", "items"}, "customer", <<U1, U2>>),
   TteNotification({"scope", "items"}, "staff", <<U1, U2>>)}

\* what the CRM may send
HubspotNotifications ==
  {<<Notification("contact.propertyChange", H1)>>,
   <<Notification("contact.propertyChange", H1),
     Notification("contact.creation", H2)>>}

Deliveries ==
  {TteDelivery(n) : n \in TteNotifications}
  \cup {HubspotDelivery(l) : l \in HubspotNotifications}

InitWeb ==
  /\ SyncOff
  /\ hsub = HsOff /\ net = NetOff /\ tsub = TsOff
  /\ web \in [1..MaxDeliveries -> Deliveries]

NextWeb ==
  \E k \in 1..MaxDeliveries :
    \/ customer_webhook(k) \/ hubspot_webhook(k) \/ WebRespond(k)
    \/ SyncBegin(k) \/ SyncEnd(k) \/ SyncRaise(k) \/ TaskExit(k)

SpecWeb == InitWeb /\ [][NextWeb]_vars

\* ------------------------------------------- the BS subscriptions set up
\* what the organisation may hold before the first setup: subscriptions for
\* customers, to this integration's URL or to an older one, and for another
\* scope
OldTteSubscriptions ==
  {[scope |-> "customer", callback_url |-> get_subscription_url],
   [scope |-> "customer", callback_url |-> "old_host" \o SUBSCRIPTION_ROUTE],
   [scope |-> "staff", callback_url |-> "other_host/staff/"]}

InitTte ==
  /\ SyncOff
  /\ hsub = HsOff /\ net = NetOff /\ web = WebOff
  /\ \E n \in 0..MaxSubs : \E f \in [1..n -> OldTteSubscriptions] :
       tsub = TsIdle([i \in 1..n |->
                        TteSubscription(i, f[i].scope, f[i].callback_url)])

NextTte == TsStart \/ TsList \/ TsDeleteOld \/ TsRegister

SpecTte == InitTte /\ [][NextTte]_vars

\* ------------------- the outbound sweep and a BS notification side by side
\* customer_webhook starts tte_sync_customers in a process of its own, while
\* outbound_sync_all may be running

\* customer U1 not linked, or linked to contact H1
RaceCustomers == {c \in FirstCustomers : c.extid \in {Null, <<H1>>}}

InitRace ==
  /\ \E c1 \in RaceCustomers :
       OutStores(c1, IF c1.extid = Null THEN NoContact(H1)
                     ELSE UserContact(H1, Ada, Null, OkEmail, <<U1>>))
  /\ track = TRUE
  /\ bsReject \in {{}, {U1}}
  /\ crmReject = {}
  /\ NoHooks /\ NoCall /\ NoFetchFail /\ NoSetup
  /\ osw = TaskIdle("osw")
  /\ \E b \in OutBatches : oev = TaskBatch("oev", b)
  /\ isw = TaskOff /\ iev = TaskOff

NextRace ==
  \/ OutStart \/ OutFetchPage \/ OutRecCrm \/ OutRecBs
  \/ OevFetch \/ OevGet \/ OevCrm \/ OevBs \/ OevDel

SpecRace == InitRace /\ [][NextRace]_vars

\* --------------------------- both webhooks registered, an end user at work
\* The BS calls customer_webhook with the URIs of the customers written, the
\* CRM calls hubspot_webhook with the notifications of its subscriptions;
\* each starts its task.  One task per direction runs at a time.

\* what an end user may type into a customer
BsEdits == {[name |-> <<"Grace">>, emails |-> <<OkEmail>>],
            [name |-> AdaLovelace, emails |-> <<BadEmail>>]}
\* ... and into a contact
CrmEdits == {[firstname |-> <<"Grace">>, email |-> OkEmail],
             [firstname |-> Ada, email |-> Null]}

Lin == Customer(U1, AdaLovelace, <<OkEmail>>, <<>>, <<H1>>)

\* the task is not running
Halted(o) == o.pc \in {"idle", "done", "crashed"}

InitLoop ==
  /\ bs = [u \in URIS |->
             IF u = U1 THEN Lin ELSE IF u = U2 THEN Bob ELSE NoCustomer(u)]
  /\ crm = [h \in HIDS |->
              IF h = H1 THEN ContactOf(H1, Lin, 1)
              ELSE IF h = H2 THEN ContactOf(H2, Bob, 1) ELSE NoContact(h)]
  /\ track = TRUE
  /\ bsReject = {}
  /\ crmReject \in {{}, {H1}}
  /\ hooks = TRUE /\ edits = 1 /\ bsDue = {} /\ crmDue = {}
  /\ NoCall /\ NoFetchFail /\ NoSetup
  /\ osw = TaskOff /\ isw = TaskOff
  /\ oev = TaskIdle("oev") /\ iev = TaskIdle("iev")

\* an end user edits a linked customer in the BS
UserEditBs ==
  /\ edits > 0
  /\ \E u \in {U1, U2}, e \in BsEdits :
       /\ bs' = [bs EXCEPT ![u].name = e.name, ![u].emails = e.emails]
       /\ bs' # bs
       /\ bsDue' = bsDue \cup {u}
  /\ edits' = edits - 1
  /\ UNCHANGED <<crm, bsReject, crmReject, track, hooks, osw, oev, isw, iev,
                 crmDue, call, ret, fetchFail, hsub, net, web, tsub>>

\* an end user edits a linked contact in the CRM
UserEditCrm ==
  /\ edits > 0
  /\ \E h \in {H1, H2}, e \in CrmEdits :
       /\ crm' = [crm EXCEPT ![h].props.firstname = e.firstname,
                             ![h].props.email = e.email]
       /\ crm' # crm
  /\ CrmNotify
  /\ edits' = edits - 1
  /\ UNCHANGED <<bs, bsReject, crmReject, track, hooks, osw, oev, isw, iev,
                 bsDue, call, ret, fetchFail, hsub, net, web, tsub>>

\* customer_webhook: a process running tte_sync_customers(items)
OevDeliver ==
  /\ Halted(oev)
  /\ \E u \in bsDue :
       /\ oev' = TaskBatch("oev", <<u>>)
       /\ bsDue' = bsDue \ {u}
  /\ UNCHANGED <<bs, crm, cfg, osw, isw, iev, crmDue>>

\* hubspot_webhook: a process running handle_hubspot_notifications
IevDeliver ==
  /\ Halted(iev)
  /\ \E n \in crmDue :
       /\ iev' = TaskBatch("iev", <<n>>)
       /\ crmDue' = crmDue \ {n}
  /\ UNCHANGED <<bs, crm, cfg, osw, oev, isw, bsDue>>

\* the steps of the engine: deliveries and the two notification tasks
NextEngine ==
  \/ OevDeliver \/ IevDeliver
  \/ OevFetch \/ OevGet \/ OevCrm \/ OevBs
  \/ IevFetch \/ IevGate \/ IevBs \/ IevCrm

NextLoop == UserEditBs \/ UserEditCrm \/ NextEngine

\* a notification due is delivered, a task started runs on
SpecLoop == InitLoop /\ [][NextLoop]_vars /\ WF_vars(NextEngine)

\* ------------------------------- both directions at work, webhooks registered
\* A customer no contact is linked to and a contact no customer is linked to:
\* each direction has a record to create, and the record it creates is seen
\* by the sweep or by the notification task of the other direction.

\* the contacts and the customers held before any sync has run
FirstHids == {H1}
FirstUris == {U1}

\* a contact a CRM user entered, with a name and no email
Dee == UserContact(H1, <<"Dee">>, Null, Null, Null)

InitCross ==
  /\ bs = [u \in URIS |->
             IF u = U1 THEN Customer(U1, AdaLovelace, <<>>, <<Phone1>>, Null)
             ELSE NoCustomer(u)]
  /\ crm = [h \in HIDS |-> IF h = H1 THEN Dee ELSE NoContact(h)]
  /\ track = TRUE
  /\ bsReject = {} /\ crmReject = {}
  /\ hooks = TRUE /\ edits = 0
  /\ NoCall /\ NoFetchFail /\ NoSetup
  /\ \E out \in {"osw", "oev"}, in \in {"isw", "iev"} :
       /\ osw = IF out = "osw"
                THEN [TaskIdle("osw") EXCEPT !.round = MaxSweeps - 1]
                ELSE TaskOff
       /\ oev = IF out = "oev" THEN TaskIdle("oev") ELSE TaskOff
       /\ bsDue = IF out = "oev" THEN {U1} ELSE {}
       /\ isw = IF in = "isw"
                THEN [TaskIdle("isw") EXCEPT !.round = MaxSweeps - 1]
                ELSE TaskOff
       /\ iev = IF in = "iev" THEN TaskIdle("iev") ELSE TaskOff
       /\ crmDue = IF in = "iev"
                   THEN {Notification("contact.creation", H1),
                         Notification("contact.propertyChange", H1)}
                   ELSE {}

\* no customer is deleted and no contact archived, so that no task comes to
\* delete
NextCross ==
  \/ OutStart \/ OutFetchPage \/ OutRecCrm \/ OutRecBs
  \/ OevDeliver \/ OevFetch \/ OevGet \/ OevCrm \/ OevBs
  \/ IswStart \/ IswFetch \/ IswRec \/ IswGate \/ IswBs \/ IswCrm \/ IswCreate
  \/ IevDeliver \/ IevFetch \/ IevGate \/ IevBs \/ IevCrm \/ IevCreate

SpecCross == InitCross /\ [][NextCross]_vars

\* ------------------------------ the clients' functions applied on their own
\* hubspot_client.HUBSPOT_PROPERTIES, the sync status aside
TextProperties ==
  {"firstname", "lastname", "hs_object_id", "email", "phone",
   "tte_customer_uri", "tte_customer_secondary_emails",
   "tte_customer_secondary_phone"}

\* what a text property may hold
PropValues == {Null, <<>>, Ada}

\* what the sync status may hold
StatusValues ==
  {NullStatus, EmptyStatus, ErrorStatus(BadEmail), ErrorStatus(<<"x@">>)}
  \cup {get_hubspot_sync_status(t) : t \in Times}

\* the properties of a contact as the CRM returns them, and a candidate as
\* convert_to_hubspot_data builds it, both without values
NoCandidate(u) ==
  [firstname |-> <<>>, lastname |-> <<>>, hs_object_id |-> <<>>,
   email |-> <<>>, phone |-> <<>>, tte_customer_uri |-> <<u>>,
   tte_customer_secondary_emails |-> <<>>,
   tte_customer_secondary_phone |-> <<>>,
   tte_customer_sync_status |-> get_hubspot_sync_status(1)]

\* pairs (current, new) that hold values in up to two text properties
FieldPairs ==
  {<<[NoProps(H1) EXCEPT ![f] = a, ![g] = b],
     [NoCandidate(U1) EXCEPT ![f] = c, ![g] = d]>> :
     f \in TextProperties, g \in {"email", "tte_customer_uri"},
     a \in PropValues, b \in PropValues, c \in PropValues, d \in PropValues}

\* pairs (current, new) that differ in the status and in up to one text
\* property
StatusPairs ==
  {<<[NoProps(H1) EXCEPT !.tte_customer_sync_status = x, ![f] = a],
     [NoCandidate(U1) EXCEPT !.tte_customer_sync_status = y]>> :
     x \in StatusValues, y \in StatusValues,
     f \in {"firstname", "tte_customer_uri"}, a \in {Null, Ada}}

\* the lists of at most MaxList values of S
ListsOf(S) == UNION {[1..k -> S] : k \in 0..MaxList}

\* a value typed with the separator of the secondary fields in it
SepEmail == <<"c@x.com", SEP, "d@x.com">>

\* customers as BS may hold them: the primary email valid or not, the other
\* values repeated, empty or holding the separator
ListCustomers ==
  {Customer(U1, AdaLovelace, e, n, Null) :
     e \in {l \in ListsOf({OkEmail, BadEmail, <<"bob@x.com">>, <<>>, SepEmail}) :
              l # <<>> /\ l[1] \in {OkEmail, BadEmail}},
     n \in ListsOf({Phone1, Phone2, <<>>})}

\* the customer translated for the CRM, stored there as contact h, read back
\* and translated for BS: the emails and numbers that come out
RoundTrip(c, h) ==
  LET d == convert_to_hubspot_data(c, 1)
      p == CrmMerged(NoProps(h), d)
      back == convert_to_tte_customer_data(p, 1)
  IN [emails |-> back.emails, numbers |-> back.numbers]

\* a property dictionary as a caller may hand it over: of the properties
\* other than the id, up to MaxOdd are absent and up to MaxOdd are None
OptionalProperties == TextProperties \ {"hs_object_id"}
FewOf(S) == {m \in SUBSET S : Cardinality(m) <= MaxOdd}
SetValue(k) ==
  IF k = "hs_object_id" THEN <<H1>>
  ELSE IF k = "firstname" THEN Ada
  ELSE IF k = "lastname" THEN <<"Lovelace">>
  ELSE IF k = "email" THEN OkEmail
  ELSE IF k = "phone" THEN Phone1
  ELSE IF k = "tte_customer_uri" THEN <<U1>>
  ELSE IF k = "tte_customer_secondary_emails" THEN <<"bob@x.com">>
  ELSE Phone2
ContactDicts ==
  {[k \in TextProperties \ absent |->
      IF k \in none THEN Null ELSE SetValue(k)] :
     absent \in FewOf(OptionalProperties), none \in FewOf(OptionalProperties)}

\* customers of the data model: the name, the emails, the numbers empty or not
PlainCustomers ==
  {Customer(U1, n, e, ph, x) :
     n \in {<<>>, Ada, AdaLovelace}, e \in {<<>>, <<OkEmail>>, <<BadEmail>>},
     ph \in {<<>>, <<Phone1, Phone2>>}, x \in {Null, <<H1>>}}

\* names as BS may hold them: words and spaces in any order
Names == UNION {[1..k -> {"Ada", "Lovelace", SP}] : k \in 0..MaxName}

\* the name translated for the CRM, stored there as contact h, read back and
\* translated for BS: the first and last name sent, and the name that comes
\* out
NameRoundTrip(name, h) ==
  LET d == convert_to_hubspot_data(Customer(U1, name, <<>>, <<>>, Null), 1)
      p == CrmMerged(NoProps(h), d)
      back == convert_to_tte_customer_data(p, 1)
  IN [firstname |-> d.firstname, lastname |-> d.lastname, name |-> back.name]

\* the outcome of a call: the value returned, or the exception raised
Returns(v) == [raised |-> "", value |-> <<v>>]
Raises(e) == [raised |-> e, value |-> <<>>]

\* hubspot_contact_properties.get(key, None), for every key
WithDefaults(p) ==
  [k \in TextProperties |-> IF k \in DOMAIN p THEN p[k] ELSE Null]

\* convert_to_tte_customer_data applied to a dictionary: firstname, lastname
\* and hs_object_id are read by subscript, the other properties with .get
convert_to_tte_customer_data_dict(p, t) ==
  IF {"firstname", "lastname", "hs_object_id"} \subseteq DOMAIN p
  THEN Returns(convert_to_tte_customer_data(WithDefaults(p), t))
  ELSE Raises("KeyError")

Calls ==
  {[fn |-> "data_has_changed", args |-> p] : p \in FieldPairs \cup StatusPairs}
  \cup {[fn |-> "has_error_status_changed", args |-> p] : p \in StatusPairs}
  \cup {[fn |-> "RoundTrip", args |-> <<c>>] : c \in ListCustomers}
  \cup {[fn |-> "convert_to_tte_customer_data", args |-> <<p>>] :
          p \in ContactDicts}
  \cup {[fn |-> "convert_to_hubspot_data", args |-> <<c>>] :
          c \in PlainCustomers}
  \cup {[fn |-> "NameRoundTrip", args |-> <<n>>] : n \in Names}

InitPure ==
  /\ bs = [u \in URIS |-> NoCustomer(u)]
  /\ crm = [h \in HIDS |-> NoContact(h)]
  /\ bsReject = {} /\ crmReject = {} /\ track = TRUE
  /\ osw = TaskOff /\ oev = TaskOff /\ isw = TaskOff /\ iev = TaskOff
  /\ NoHooks /\ NoFetchFail /\ NoSetup
  /\ call \in Calls
  /\ ret = <<>>

\* the function named by call is applied to its arguments and returns v
Return(fn, v) ==
  /\ call.fn = fn /\ ret = <<>>
  /\ ret' = <<v>>
  /\ UNCHANGED <<bs, crm, bsReject, crmReject, track, hooks, edits, call,
                 osw, oev, isw, iev, bsDue, crmDue, fetchFail, hsub, net,
                 web, tsub>>

Call_data_has_changed ==
  Return("data_has_changed",
         data_has_changed(call.args[1], call.args[2],
                          HUBSPOT_COMPARISON_PROPERTIES))

Call_has_error_status_changed ==
  Return("has_error_status_changed",
         has_error_status_changed(call.args[1], call.args[2]))

Call_RoundTrip == Return("RoundTrip", RoundTrip(call.args[1], H1))

Call_convert_to_tte_customer_data ==
  \E t \in Times :
    Return("convert_to_tte_customer_data",
           convert_to_tte_customer_data_dict(call.args[1], t))

Call_convert_to_hubspot_data ==
  \E t \in Times :
    Return("convert_to_hubspot_data",
           Returns(convert_to_hubspot_data(call.args[1], t)))

Call_NameRoundTrip ==
  Return("NameRoundTrip", NameRoundTrip(call.args[1], H1))

NextPure ==
  \/ Call_data_has_changed \/ Call_has_error_status_changed
  \/ Call_RoundTrip
  \/ Call_convert_to_tte_customer_data \/ Call_convert_to_hubspot_data
  \/ Call_NameRoundTrip

SpecPure == InitPure /\ [][NextPure]_vars

\* ================================================================= claims
\* what the outbound gate lets through of customer c's primary email
GatedEmail(c) ==
  IF c.emails # <<>> /\ validate_email(c.emails[1]) THEN c.emails[1] ELSE <<>>
\* st is the status the outbound gate gives customer c
GatedStatus(c, st) ==
  IF c.emails # <<>> /\ ~validate_email(c.emails[1])
  THEN st = ErrorStatus(c.emails[1])
  ELSE st.kind = "ok" /\ st.t \in Times
\* d are the gated translated attributes of customer c
GatedData(c, d) ==
  /\ d.email = GatedEmail(c)
  /\ GatedStatus(c, d.tte_customer_sync_status)
  /\ d.tte_customer_uri = <<c.uri>>
  /\ (c.name = AdaLovelace => d.firstname = Ada /\ d.lastname = <<"Lovelace">>)
  /\ d.phone = (IF c.numbers = <<>> THEN <<>> ELSE c.numbers[1])
\* a tte_update_customer that writes the status and the External ID only
StatusWrite(req, u, st, extid) ==
  req = [sys |-> "bs", op |-> "update", to |-> u,
         data |-> [name |-> Null, emails |-> NullList, numbers |-> NullList,
                   external_id |-> extid, status |-> st]]

\* the outbound sweep's step for osw.cur is over
OutStepOver == osw.fin \/ osw.pc = "aborted"

\* C9: for a live BS record whose External ID does not resolve to exactly one
\* CRM id, the outbound sweep issues exactly one CRM create carrying the
\* gated translated attributes, then one BS write of the gated status and,
\* only if identity tracking is enabled, of the id the create returned.
C9_OutboundCreate ==
  (OutStepOver /\ ~osw.cur.deleted /\ NoSingleId(get_hubspot_ids(osw.cur))) =>
    /\ Len(osw.log) = 2
    /\ osw.log[1].sys = "crm" /\ osw.log[1].op = "create"
    /\ GatedData(osw.cur, osw.log[1].data)
    /\ StatusWrite(osw.log[2], osw.cur.uri,
                   osw.log[1].data.tte_customer_sync_status,
                   IF track THEN osw.newid ELSE Null)
    /\ osw.newid # Null =>
         /\ CrmLive(crm, KeyOf(osw.newid))
         /\ crm[KeyOf(osw.newid)].props.tte_customer_uri = <<osw.cur.uri>>
    /\ osw.fin =>
         bs[osw.cur.uri].extid =
           (IF track /\ osw.newid # Null THEN osw.newid ELSE osw.cur.extid)

C9_Witness ==
  /\ osw.fin /\ track
  /\ osw.cur.uri = U1 /\ osw.cur.extid = Null /\ ~osw.cur.deleted
  /\ osw.cur.name = AdaLovelace /\ osw.cur.emails = <<OkEmail>>
  /\ osw.log[1].op = "create" /\ osw.log[1].data.email = OkEmail
  /\ osw.newid # Null /\ bs[U1].extid = osw.newid

\* C10: for a live BS record whose External ID resolves to exactly one CRM
\* id, every outbound sweep issues a CRM update of that id with the gated
\* attributes and then a BS write of the gated status, whether or not
\* anything changed since the sweep before.
C10_OutboundUpdateUnconditional ==
  (OutStepOver /\ ~osw.cur.deleted /\ ~NoSingleId(get_hubspot_ids(osw.cur))) =>
    /\ Len(osw.log) = 2
    /\ osw.log[1].sys = "crm" /\ osw.log[1].op = "update"
    /\ <<osw.log[1].to>> = osw.cur.extid
    /\ GatedData(osw.cur, osw.log[1].data)
    /\ StatusWrite(osw.log[2], osw.cur.uri,
                   osw.log[1].data.tte_customer_sync_status, Null)

\* the second sweep finds customer U2 and its contact as the first left them
C10_Witness ==
  /\ osw.round = 2 /\ osw.fin /\ osw.cur.uri = U2
  /\ osw.cur.name = Bob.name /\ osw.cur.emails = Bob.emails
  /\ osw.cur.extid = <<H2>>
  /\ osw.log[1].op = "update" /\ osw.log[1].to = H2
  /\ ~data_has_changed(ContactOf(H2, Bob, 1).props, osw.log[1].data,
                       HUBSPOT_COMPARISON_PROPERTIES)

\* the change detector finds contact props and the BS customer it is linked
\* to to differ, whichever of the two is taken as the current side
InChangeReported(props, b) ==
  LET d == block_outbound_sync_for_invalid_fields(
             convert_to_hubspot_data(b[KeyOf(props.tte_customer_uri)], 1), 1)
  IN \/ update_hubspot_contact_if_changed(props, d)
     \/ data_has_changed(d, props, HUBSPOT_COMPARISON_PROPERTIES)

\* the inbound task o sends its BS update in this step, to a customer BS serves
InSendsUpdate(o, o2) ==
  /\ o.pc = "bs"
  /\ Len(o2.log) > Len(o.log)
  /\ BsFound(bs, KeyOf(o.cur.tte_customer_uri))

InUpdateOver(o) == o.fin /\ o.br \in {"gate", "bs"}

\* the update step of inbound task o issued the BS update with the translated
\* data of the contact and, when BS accepted it, the status write-back
InUpdateIssued(o) ==
  LET u == KeyOf(o.cur.tte_customer_uri)
  IN /\ (o.br = "bs" \/ BsFound(bs, u)) => o.log # <<>>
     /\ o.log # <<>> =>
          /\ o.log[1].sys = "bs" /\ o.log[1].op = "update" /\ o.log[1].to = u
          /\ o.log[1].data.name = join_names(o.cur.firstname, o.cur.lastname)
          /\ o.log[1].data.external_id = o.cur.hs_object_id
          /\ Len(o.log) = (IF BsPatchStatus(bs, bsReject, u) = 200 THEN 2 ELSE 1)
          /\ Len(o.log) = 2 =>
               /\ o.log[2] = CrmUpdateReq(o.cur.hs_object_id,
                    [tte_customer_sync_status |-> o.log[1].data.status])
               /\ bs[u].name = o.log[1].data.name
               /\ bs[u].emails = o.log[1].data.emails

SweepEnded(o) == o.pc \in {"done", "aborted"}

\* C3: in the outbound and in the inbound sweep an error raised while syncing
\* one record is caught and every remaining record of the page and of the
\* later pages is still synced: a sweep that has ended has gone through every
\* customer BS lists, every contact the CRM lists.
C3_SweepErrorIsolation ==
  /\ SweepEnded(osw) => Len(osw.visited) = Len(BsListFrom(bs, 1, TRUE))
  /\ SweepEnded(isw) =>
       Len(isw.visited) =
         Len(CrmListFrom(crm, 1, FALSE)) + Len(CrmListFrom(crm, 1, TRUE))

\* a notification task has ended, by itself or by an exception
BatchEnded(o) == o.pc \in {"done", "crashed"}

\* C4: in a batch of notifications (tte_sync_customers,
\* handle_hubspot_notifications) a remote-API error while handling one item,
\* a failed CRM fetch of the linked contact included, is caught and every
\* later item is still processed: a task that has ended has gone through its
\* whole batch.
C4_BatchErrorIsolation ==
  /\ BatchEnded(oev) => Len(oev.visited) = Len(oev.page)
  /\ BatchEnded(iev) => Len(iev.visited) = Len(iev.page)

\* the batch of task o is one notification twice, and the second run is over
SecondRunOver(o) ==
  /\ Len(o.page) = 2 /\ o.page[1] = o.page[2]
  /\ Len(o.visited) = 2 /\ o.fin

RejectedAndChanged(u) ==
  /\ BsFound(bs, u) /\ ~NoSingleId(get_hubspot_ids(bs[u]))
  /\ LET h == KeyOf(get_hubspot_ids(bs[u])[1])
     IN /\ CrmLive(crm, h) /\ h \in crmReject
        /\ update_hubspot_contact_if_changed(crm[h].props,
             block_outbound_sync_for_invalid_fields(
               convert_to_hubspot_data(bs[u], 1), 1))

Shape(req) == [sys |-> req.sys, op |-> req.op, to |-> req.to]
Shapes(log) == [k \in 1..Len(log) |-> Shape(log[k])]

\* the branches compared as decisions: the gate is part of an update, and a
\* deletion without a URI sends nothing
Decision(br, d) ==
  IF br = "gate" THEN "bs"
  ELSE IF br = "delete" /\ ~HasUri(d) THEN "skip" ELSE br

\* the notification whose handling is over
LastNotification(o) == o.page[Len(o.visited)]

\* the branch the inbound sweep takes for the contact the task read
SweepBranchOf(o) ==
  InSweepBranch(
    [archived |-> LastNotification(o).subscriptionType = "contact.deletion",
     props |-> o.cur], o.data)

OevWarranted ==
  \/ oev.current = <<>>
  \/ update_hubspot_contact_if_changed(oev.current,
       block_outbound_sync_for_invalid_fields(
         convert_to_hubspot_data(oev.cur, 1), 1))

LinkedContacts(u) ==
  {h \in HIDS : CrmLive(crm, h) /\ crm[h].props.tte_customer_uri = <<u>>}

\* C6: with identity tracking enabled, whatever sweeps and notification
\* syncs have run and however they interleaved, no two live CRM contacts
\* carry the same BS URI and no two BS customers the same External ID.
C6_OneCrossReference ==
  track =>
    /\ \A u \in URIS : Cardinality(LinkedContacts(u)) <= 1
    /\ \A u, v \in URIS :
         (u # v /\ bs[u].exists /\ bs[v].exists /\ bs[u].extid # Null)
           => bs[u].extid # bs[v].extid

\* C7: the notification sync of customer U1 interleaved with the sweep's
\* step for U1 ends as the two run one after the other do when every
\* request is accepted: one live contact carries U1's URI, and U1's
\* External ID is that contact's id.
C7_InterleavingSafe ==
  (/\ osw.pc = "done" /\ oev.pc = "done" /\ oev.page[1] = U1
   /\ bsReject = {} /\ crmReject = {} /\ BsFound(bs, U1)) =>
     \E h \in HIDS : LinkedContacts(U1) = {h} /\ bs[U1].extid = <<h>>

\* nothing is due and no notification task is running
Quiet == bsDue = {} /\ crmDue = {} /\ Halted(oev) /\ Halted(iev)

\* C2: from linked pairs, after one end-user edit on either side and none
\* after it, the chain of notifications the engine's own writes cause comes
\* to an end, also when the CRM rejects a write: from some point on nothing
\* is due and no task runs.
C2_NoInfiniteLoop == <>[]Quiet

\* the requests of log are archive requests, one for each contact of hs
OnlyArchives(log, hs) ==
  /\ Len(log) = Cardinality(hs)
  /\ {log[k].to : k \in 1..Len(log)} = hs
  /\ \A k \in 1..Len(log) : log[k].sys = "crm" /\ log[k].op = "archive"

IswArchivedOver ==
  /\ isw.fin /\ isw.br # ""
  /\ crm[KeyOf(isw.cur.hs_object_id)].archived

\* C12: for an archived CRM contact that carries a non-empty BS
\* cross-reference the inbound sweep issues exactly one request, a BS delete
\* of the referenced URI with force=true, after no BS read and with no BS
\* update, and the customer is deleted when BS accepts it; for an archived
\* contact with no cross-reference it issues no BS call at all.
C12_InboundDelete ==
  IswArchivedOver =>
    LET text == isw.cur.tte_customer_uri
        u == KeyOf(text)
    IN /\ isw.reads = 0
       /\ IF text # Null /\ text # <<>>
          THEN /\ isw.log = <<[sys |-> "bs", op |-> "delete", to |-> u,
                               data |-> [force |-> TRUE]]>>
               /\ (u \in URIS /\ bs[u].exists /\ u \notin bsReject)
                    => bs[u].deleted
          ELSE isw.log = <<>>

\* the archived contact H1 carried U1's URI: one forced delete went out
C12_Witness ==
  /\ IswArchivedOver /\ isw.cur.hs_object_id = <<H1>>
  /\ isw.cur.tte_customer_uri = <<U1>>
  /\ isw.log = <<BsDeleteReq(U1, TRUE)>>
  /\ bsReject = {} /\ bs[U1].deleted

\* the step of inbound task o for a live contact without cross-reference is
\* over
InCreateOver(o) == o.fin /\ o.br = "create"

\* the create step of inbound task o, run with identity tracking trk, sent
\* one BS create, carrying the contact's id as External ID only if trk, and
\* the write of the new URI to the contact only if trk
InCreateTracked(o, trk) ==
  /\ o.log # <<>>
  /\ o.log[1].sys = "bs" /\ o.log[1].op = "create"
  /\ o.log[1].data.name = join_names(o.cur.firstname, o.cur.lastname)
  /\ o.log[1].data.external_id = (IF trk THEN o.cur.hs_object_id ELSE Null)
  /\ Len(o.log) = (IF trk /\ "new" \notin bsReject THEN 2 ELSE 1)
  /\ Len(o.log) = 2 =>
       /\ o.log[2].sys = "crm" /\ o.log[2].op = "update"
       /\ <<o.log[2].to>> = o.cur.hs_object_id
       /\ KeyOf(o.log[2].data.tte_customer_uri) \in URIS
       /\ bs[KeyOf(o.log[2].data.tte_customer_uri)].extid = o.cur.hs_object_id

\* C13: for a live CRM contact with no BS cross-reference the inbound sync
\* creates one BS customer; the contact's id is recorded on that customer as
\* External ID, and the customer's URI on the contact, only if identity
\* tracking is enabled: with tracking disabled neither is recorded.  The
\* sweep runs with the configured tracking, the contact.creation handling
\* with tracking enabled.
C13_InboundCreateTracking ==
  /\ InCreateOver(isw) => InCreateTracked(isw, track)
  /\ InCreateOver(iev) => InCreateTracked(iev, TRUE)

\* the outbound notification sync of a customer whose linked contact it read
\* is over
OevLinkedOver == oev.fin /\ oev.cur.exists /\ oev.current # <<>>

\* the gated candidate tte_sync_customer compares with the contact
OevCandidate ==
  block_outbound_sync_for_invalid_fields(convert_to_hubspot_data(oev.cur, 1), 1)

\* C14: in the outbound single-record sync of a linked record the CRM update
\* of the linked contact with the gated candidate and the BS write-back of
\* the gated status are issued if and only if data_has_changed over the
\* comparison fields or has_error_status_changed holds of the contact read
\* and the gated candidate; otherwise the sync issues no request to either
\* system.
C14_WriteIffChanged ==
  OevLinkedOver =>
    IF \/ data_has_changed(oev.current, OevCandidate,
                           HUBSPOT_COMPARISON_PROPERTIES)
       \/ has_error_status_changed(oev.current, OevCandidate)
    THEN /\ Len(oev.log) = 2
         /\ oev.log[1].sys = "crm" /\ oev.log[1].op = "update"
         /\ <<oev.log[1].to>> = oev.cur.extid
         /\ GatedData(oev.cur, oev.log[1].data)
         /\ StatusWrite(oev.log[2], oev.cur.uri,
                        oev.log[1].data.tte_customer_sync_status, Null)
    ELSE oev.log = <<>>

\* the contact held the error status of an invalid email the customer has
\* lost since: no compared field differs, the status leaves the error state,
\* and both writes went out
C14_Witness ==
  /\ OevLinkedOver /\ oev.cur.uri = U1 /\ oev.cur.emails = <<>>
  /\ oev.current.tte_customer_sync_status = ErrorStatus(BadEmail)
  /\ ~data_has_changed(oev.current, OevCandidate,
                       HUBSPOT_COMPARISON_PROPERTIES)
  /\ Len(oev.log) = 2 /\ oev.log[1].op = "update"
  /\ oev.log[1].data.tte_customer_sync_status.kind = "ok"
  /\ bs[U1].status.kind = "ok"

\* the function fn has returned
Returned(fn) == call.fn = fn /\ ret # <<>>

\* the six properties the claim calls the compared fields
ComparedFields ==
  {"firstname", "lastname", "email", "phone",
   "tte_customer_secondary_emails", "tte_customer_secondary_phone"}

\* field f of current and new counts as the same: equal, or null against ""
SameField(current, new, f) ==
  (current[f] = Null /\ new[f] = <<>>) \/ current[f] = new[f]

\* the record with the fields outside the comparison list set to fixed values
OnlyCompared(d) ==
  [d EXCEPT !.tte_customer_uri = <<>>, !.hs_object_id = <<>>,
            !.tte_customer_sync_status = EmptyStatus]

\* C15: data_has_changed over the comparison fields returns False when for
\* every compared field the current value is null and the candidate's the
\* empty string, or the two are equal; it returns True as soon as one
\* compared field differs otherwise; and the cross-reference, the sync
\* status and the object id do not influence the result.
C15_DataHasChanged ==
  Returned("data_has_changed") =>
    LET current == call.args[1]
        new == call.args[2]
    IN /\ (\A f \in ComparedFields : SameField(current, new, f))
            => ret = <<FALSE>>
       /\ (\E f \in ComparedFields : ~SameField(current, new, f))
            => ret = <<TRUE>>
       /\ ret = <<data_has_changed(OnlyCompared(current), OnlyCompared(new),
                                   ComparedFields)>>

\* null against "" in every compared field while the cross-reference, the
\* object id and the status differ: no change
C15_Witness ==
  /\ Returned("data_has_changed") /\ ret = <<FALSE>>
  /\ \A f \in ComparedFields : call.args[1][f] = Null /\ call.args[2][f] = <<>>
  /\ call.args[1].tte_customer_uri # call.args[2].tte_customer_uri
  /\ call.args[1].hs_object_id # call.args[2].hs_object_id
  /\ call.args[1].tte_customer_sync_status = ErrorStatus(BadEmail)
  /\ call.args[2].tte_customer_sync_status.kind = "ok"

\* a status as the text compared: a missing or null status is ""
StatusText(s) == IF s = NullStatus THEN EmptyStatus ELSE s
\* the status is an error status
IsErrorStatus(s) == s \in {ErrorStatus(BadEmail), ErrorStatus(<<"x@">>)}
\* the status is a success marker
IsSuccessMarker(s) == s \in {get_hubspot_sync_status(t) : t \in Times}

\* C16: has_error_status_changed is true if and only if the two status
\* texts differ (a missing or null status counting as "") and at least one
\* of them holds the error token; so two success markers that differ in
\* their timestamp give False, and a change from an error status to another
\* status or from another status to an error status gives True.
C16_ErrorStatusChanged ==
  Returned("has_error_status_changed") =>
    LET c == call.args[1].tte_customer_sync_status
        n == call.args[2].tte_customer_sync_status
    IN /\ ret = <<StatusText(c) # StatusText(n)
                    /\ (IsErrorStatus(c) \/ IsErrorStatus(n))>>
       /\ (IsSuccessMarker(c) /\ IsSuccessMarker(n)) => ret = <<FALSE>>
       /\ (IsErrorStatus(c) # IsErrorStatus(n)) => ret = <<TRUE>>
       /\ (~IsErrorStatus(c) /\ ~IsErrorStatus(n)) => ret = <<FALSE>>

\* two success markers of different times
C16_Witness ==
  /\ Returned("has_error_status_changed") /\ ret = <<FALSE>>
  /\ call.args[1].tte_customer_sync_status = get_hubspot_sync_status(1)
  /\ call.args[2].tte_customer_sync_status = get_hubspot_sync_status(2)

\* outbound task o has sent a CRM create or update for the record in hand
OutSent(o) ==
  /\ o.log # <<>>
  /\ o.log[1].sys = "crm" /\ o.log[1].op \in {"create", "update"}

\* the data of that request are the record's translated attributes after
\* the outbound gate
OutSentGated(o) ==
  LET d == o.log[1].data
      e == IF o.cur.emails = <<>> THEN <<>> ELSE o.cur.emails[1]
  IN /\ IF e # <<>> /\ ~validate_email(e)
        THEN /\ d.email = <<>>
             /\ d.tte_customer_sync_status =
                  [kind |-> "err", t |-> 0, v |-> e]
        ELSE /\ d.email = e
             /\ d.tte_customer_sync_status.kind = "ok"
             /\ d.tte_customer_sync_status.t \in Times
     /\ \E t \in Times :
          [d EXCEPT !.email = e,
                    !.tte_customer_sync_status = get_hubspot_sync_status(t)]
            = convert_to_hubspot_data(o.cur, t)

\* C17: every CRM create and every CRM update of an outbound sync, sweep or
\* notification, carries the candidate after the outbound gate: a primary
\* email that is non-empty and fails the format check is sent as the empty
\* string with the status "Error: Invalid email <that value>"; a valid or
\* empty primary email is sent unchanged with a fresh success marker; the
\* other attributes are the translated ones.
C17_OutboundGate ==
  /\ OutSent(osw) => OutSentGated(osw)
  /\ OutSent(oev) => OutSentGated(oev)

\* the notification sync of customer U1, whose primary email is invalid,
\* created a contact without email and wrote the error status to both sides
C17_Witness ==
  /\ oev.fin /\ oev.cur.uri = U1 /\ oev.cur.emails = <<BadEmail>>
  /\ Len(oev.log) = 2 /\ oev.log[1].op = "create"
  /\ oev.log[1].data.email = <<>>
  /\ oev.log[1].data.tte_customer_sync_status = ErrorStatus(BadEmail)
  /\ oev.newid # Null /\ crm[KeyOf(oev.newid)].props.email = Null
  /\ bs[U1].status = ErrorStatus(BadEmail) /\ bs[U1].emails = <<BadEmail>>

\* the inbound update of task o is over; its contact's primary email was
\* blank and the customer the gate fetched has an invalid primary email
InBlockedOver(o) ==
  /\ o.fin /\ o.br = "gate" /\ o.current # <<>>
  /\ o.cur.email \in {Null, <<>>}
  /\ o.current.emails # <<>> /\ ~validate_email(o.current.emails[1])

\* the update sent puts the customer's old primary email first, ahead of the
\* contact's secondary emails, with an error status naming it, and the
\* customer's primary email is what it was
InBlocked(o) ==
  LET old == o.current.emails[1]
      u == o.current.uri
  IN /\ o.log # <<>>
     /\ o.log[1].sys = "bs" /\ o.log[1].op = "update" /\ o.log[1].to = u
     /\ o.log[1].data.emails # <<>> /\ o.log[1].data.emails[1] = old
     /\ Tail(o.log[1].data.emails) =
          (IF o.cur.tte_customer_secondary_emails = Null THEN <<>>
           ELSE NonEmpty(Split(o.cur.tte_customer_secondary_emails, SEP)))
     /\ o.log[1].data.status = [kind |-> "err", t |-> 0, v |-> old]
     /\ bs[u].emails # <<>> /\ bs[u].emails[1] = old
     /\ Len(o.log) = 2 =>
          /\ bs[u].emails = o.log[1].data.emails
          /\ bs[u].status = o.log[1].data.status
          /\ o.log[2] = CrmUpdateReq(o.cur.hs_object_id,
               [tte_customer_sync_status |-> o.log[1].data.status])

\* C18: when the incoming CRM primary email is blank (empty or null) and the
\* primary email of the BS record the inbound gate has just fetched is
\* invalid, the update sent to BS carries that value at position 0 of its
\* email list and an error status naming it, so that after the inbound
\* update the BS record's primary email is what it was before; so in the
\* sweep and in the contact.propertyChange handling.
C18_InboundGateProtects ==
  /\ InBlockedOver(isw) => InBlocked(isw)
  /\ InBlockedOver(iev) => InBlocked(iev)

\* contact H1 without email, customer U1 with the invalid one: the sweep's
\* update was accepted and U1 keeps its email
C18_Witness ==
  /\ InBlockedOver(isw) /\ isw.cur.hs_object_id = <<H1>>
  /\ isw.current.uri = U1 /\ isw.current.emails = <<BadEmail>>
  /\ Len(isw.log) = 2
  /\ isw.log[1].data.emails = <<BadEmail>>
  /\ bs[U1].emails = <<BadEmail>> /\ bs[U1].status = ErrorStatus(BadEmail)
  /\ bs[U1].name = Ada

\* inbound task o has sent the BS update of a linked live contact
InUpdateSent(o) ==
  /\ o.br \in {"gate", "bs"} /\ o.log # <<>>
  /\ o.log[1].sys = "bs" /\ o.log[1].op = "update"

\* the update sent carries the candidate as translated from the contact
InCandidateSent(o) ==
  \E t \in Times :
    LET d == convert_to_tte_customer_data(o.cur, t)
    IN o.log[1] =
         [sys |-> "bs", op |-> "update", to |-> KeyOf(o.cur.tte_customer_uri),
          data |-> [name |-> d.name, emails |-> d.emails,
                    numbers |-> d.numbers, external_id |-> d.external_id,
                    status |-> d.status]]

\* the pass-through of the inbound gate for task o
InPassThrough(o) ==
  IF o.cur.email \notin {Null, <<>>}
  THEN o.reads = 0 /\ InCandidateSent(o)
  ELSE /\ o.reads = 1
       /\ (o.current.emails = <<>> \/ validate_email(o.current.emails[1]))
            => InCandidateSent(o)

\* C19: when the incoming CRM primary email is non-blank the inbound gate
\* makes no BS read and the candidate goes to BS unchanged; when it is blank
\* and the primary email of the BS record fetched is valid, or the record
\* has no emails, the candidate goes to BS unchanged as well, emails and
\* status untouched: the blank is let through.
C19_InboundGatePassThrough ==
  /\ InUpdateSent(isw) => InPassThrough(isw)
  /\ InUpdateSent(iev) => InPassThrough(iev)

\* contact H1 lost its email, customer U1 held a valid one: the update
\* notified went out as translated and U1 is left without email
C19_Witness ==
  /\ InUpdateSent(iev) /\ iev.fin /\ iev.reads = 1
  /\ iev.cur.hs_object_id = <<H1>> /\ iev.cur.email = Null
  /\ iev.current.uri = U1 /\ iev.current.emails = <<OkEmail>>
  /\ iev.log[1].data.emails = <<>>
  /\ iev.log[1].data.status.kind = "ok"
  /\ Len(iev.log) = 2 /\ bs[U1].emails = <<>>

\* the text holds the separator of the secondary fields
HoldsSeparator(v) == \E i \in 1..Len(v) : v[i] = SEP
\* no value of the list does
NoSeparator(l) == \A k \in 1..Len(l) : ~HoldsSeparator(l[k])
\* no value of the list is the empty string
NoEmptyValue(l) == \A k \in 1..Len(l) : l[k] # <<>>

\* the customer translated has a valid primary email and no value that holds
\* the separator
RoundTripInput(c) ==
  /\ c.emails # <<>> /\ validate_email(c.emails[1])
  /\ NoSeparator(c.emails) /\ NoSeparator(c.numbers)

\* C20 as stated: for every BS record with a valid primary email and no
\* value holding the comma-newline separator, translating it for the CRM
\* and the contact back for BS returns the same emails list and the same
\* numbers list.
C20_RoundTrip ==
  (Returned("RoundTrip") /\ RoundTripInput(call.args[1])) =>
    ret = <<[emails |-> call.args[1].emails,
             numbers |-> call.args[1].numbers]>>

\* C20, amended: the same for every such record none of whose emails and
\* numbers is the empty string; an empty value is dropped on the way back,
\* the other values keeping their order.
C20_RoundTripNoEmptyValue ==
  (/\ Returned("RoundTrip") /\ RoundTripInput(call.args[1])
   /\ NoEmptyValue(call.args[1].emails)
   /\ NoEmptyValue(call.args[1].numbers)) =>
    ret = <<[emails |-> call.args[1].emails,
             numbers |-> call.args[1].numbers]>>

\* three emails, one of them twice, and two numbers come back as they were
C20_Witness ==
  /\ Returned("RoundTrip")
  /\ call.args[1].emails = <<OkEmail, <<"bob@x.com">>, OkEmail>>
  /\ call.args[1].numbers = <<Phone1, Phone2>>
  /\ ret = <<[emails |-> <<OkEmail, <<"bob@x.com">>, OkEmail>>,
             numbers |-> <<Phone1, Phone2>>]>>

\* the single-record sync of a BS customer URI is over
OevOver == oev.kind = "oev" /\ oev.fin

\* request k of the item's log archives a contact whose cross-reference is u
ArchivesLinked(o, k, u) ==
  /\ o.log[k].op = "archive"
  /\ crm[o.log[k].to].props.tte_customer_uri = <<u>>
  /\ crm[o.log[k].to].archived

ListedUris ==
  LET all == BsListFrom(bs, 1, TRUE) IN [k \in 1..Len(all) |-> all[k].uri]

\* the ids of the contacts the CRM lists, live or archived, in order
ListedIds(archived) ==
  LET all == CrmListFrom(crm, 1, archived)
  IN [k \in 1..Len(all) |-> KeyOf(all[k].props.hs_object_id)]

\* C22 as stated: a sweep applies the per-record step to every item of every
\* page exactly once, in the order returned, and stops only when the
\* returned cursor is empty: when outbound_sync has returned the records it
\* took in hand are the customers BS lists, in order, and when both passes
\* of inbound_sync have returned the contacts taken in hand are the live
\* contacts and then the archived ones, in order.
C22_PaginationComplete ==
  /\ (osw.kind = "osw" /\ osw.pc = "done") => osw.visited = ListedUris
  /\ (isw.kind = "isw" /\ isw.pc = "done")
       => isw.visited = ListedIds(FALSE) \o ListedIds(TRUE)

\* the first page of outbound_sync comes back empty: the sweep returns, and
\* no record was taken in hand, no request issued and no store changed
OutEmptyFirstPage ==
  (osw.pc = "fetch" /\ osw.cursor = 0 /\ ListedUris = <<>> /\ osw' # osw)
    => /\ osw'.pc = "done"
       /\ osw'.visited = <<>> /\ osw'.log = <<>>
       /\ UNCHANGED <<bs, crm>>

\* the same for a pass of inbound_sync: it returns, to inbound_sync_all,
\* which starts the pass over the archived contacts or returns itself
InEmptyFirstPage ==
  (/\ isw.pc = "fetch" /\ isw.cursor = 0 /\ ListedIds(isw.del) = <<>>
   /\ isw' # isw)
    => /\ \/ isw'.pc = "done"
          \/ isw'.pc = "fetch" /\ isw'.cursor = 0 /\ ~isw.del /\ isw'.del
       /\ isw'.visited = isw.visited /\ isw'.log = isw.log
       /\ UNCHANGED <<bs, crm>>

\* C23: over a finite chain of pages whose cursors do not repeat,
\* outbound_sync and inbound_sync terminate (a sweep that fetches a page
\* comes to its end); with an empty first page they terminate at once,
\* without a per-record step or a mutation.
C23_SweepTerminates ==
  /\ (osw.pc = "fetch") ~> (osw.pc \in {"done", "aborted"})
  /\ (isw.pc = "fetch") ~> (isw.pc = "done")
  /\ [][OutEmptyFirstPage /\ InEmptyFirstPage]_vars

\* outbound_sync has returned from an account without customers
C23_Witness ==
  /\ osw.kind = "osw" /\ osw.pc = "done" /\ osw.round = 1
  /\ ListedUris = <<>> /\ osw.visited = <<>>

\* the contacts inbound_sync_all took in hand: the live ones first, and none
\* archived before the second pass; it returns after the second pass
InTwoPasses ==
  isw.kind = "isw" =>
    /\ \A j, k \in 1..Len(isw.visited) :
         (j < k /\ crm[isw.visited[j]].archived) => crm[isw.visited[k]].archived
    /\ ~isw.del => \A k \in 1..Len(isw.visited) : ~crm[isw.visited[k]].archived
    /\ isw.pc = "done" => isw.del

\* the customers outbound_sync_all took in hand: the live ones first
OutLiveFirst ==
  osw.kind = "osw" =>
    \A j, k \in 1..Len(osw.visited) :
      (j < k /\ bs[osw.visited[j]].deleted) => bs[osw.visited[k]].deleted

\* outbound_sync_all makes one pass, over the one list of live and deleted
\* customers
OutOnePass ==
  osw.kind = "osw" =>
    /\ ~osw.del
    /\ Len(osw.visited) <= Len(ListedUris)
    /\ \A k \in 1..Len(osw.visited) : osw.visited[k] = ListedUris[k]

AmbiguousInHand(o) ==
  /\ o.cur # <<>> /\ ~o.cur.deleted
  /\ o.cur.extid # Null /\ Len(get_hubspot_ids(o.cur)) > 1

\* the requests for it: a CRM create first, and no CRM update
CreatesOnly(o) ==
  /\ o.log # <<>> => (o.log[1].sys = "crm" /\ o.log[1].op = "create")
  /\ \A k \in 1..Len(o.log) : o.log[k].sys = "crm" => o.log[k].op = "create"

\* C25: when a BS record's External ID lists more than one CRM id, the
\* outbound sweep and the single-record sync create a new CRM contact,
\* update none of the listed contacts and raise no error (the task ends
\* early only if BS rejects the write that follows the create).
C25_AmbiguousIdentityCreates ==
  \A o \in {osw, oev} :
    AmbiguousInHand(o) =>
      /\ CreatesOnly(o)
      /\ o.fin => o.log # <<>>
      /\ o.pc # "crashed"
      /\ o.pc = "aborted" => o.cur.uri \in bsReject

\* the sweep created a contact for the customer whose External ID lists H1
\* and H2, and went on
C25_Witness ==
  /\ osw.fin /\ AmbiguousInHand(osw)
  /\ get_hubspot_ids(osw.cur) = <<<<H1>>, <<H2>>>>
  /\ osw.log[1].op = "create" /\ osw.newid # Null

\* a step of an outbound task, sweep or single-record sync
OutboundStep == osw' # osw \/ oev' # oev

\* the task whose step it is, after the step
OutboundAfter == IF osw' # osw THEN osw' ELSE oev'

\* the step leaves every BS record as it was, but for the Sync Status and,
\* on the create path, the External ID of the record in hand
BsFrame ==
  \A u \in URIS :
    /\ bs'[u] = [bs[u] EXCEPT !.status = bs'[u].status,
                              !.extid = bs'[u].extid]
    /\ bs'[u].extid # bs[u].extid =>
         /\ u = OutboundAfter.cur.uri
         /\ OutboundAfter.log[1].op = "create"
    /\ bs'[u].status # bs[u].status => u = OutboundAfter.cur.uri

\* C26: no outbound step, of the sweep or of the single-record sync, on the
\* create or the update path, with the gate triggered or not, writes the
\* name, emails or phones of a BS record; its only BS writes are the Sync
\* Status and, on the create path, the External ID.
C26_OutboundPreservesBs == [][OutboundStep => BsFrame]_vars

\* the sweep synced a customer whose primary email is invalid: BS has the
\* error status and still the email
C26_Witness ==
  /\ osw.fin /\ Len(osw.log) = 2 /\ osw.log[2].sys = "bs"
  /\ osw.cur.emails = <<BadEmail>>
  /\ bs[osw.cur.uri].emails = <<BadEmail>>
  /\ bs[osw.cur.uri].status = osw.log[2].data.status
  /\ IsErrorStatus(osw.log[2].data.status)

\* C27 as stated: the field translators are total: for every BS record of
\* the data model convert_to_hubspot_data returns a result, and for every
\* CRM contact, with first name, last name, email, phone, secondary fields
\* or cross-reference null or absent, convert_to_tte_customer_data returns
\* a result; neither raises an error.
C27_TranslatorsTotal ==
  (Returned("convert_to_hubspot_data")
     \/ Returned("convert_to_tte_customer_data"))
    => ret[1].raised = ""

\* a sync step is over in which the task sent a write, each of which
\* carries a status
WroteStatus(o) ==
  /\ o.fin
  /\ \E k \in 1..Len(o.log) : o.log[k].op \in {"create", "update"}

\* customer u and contact h are in hand in the step of task o
InHand(o, u, h) ==
  IF o.kind \in {"osw", "oev"}
  THEN o.cur.uri = u
  ELSE KeyOf(o.cur.hs_object_id) = h

\* customer u and the live contact h are linked to each other
LinkedPair(u, h) ==
  /\ BsFound(bs, u) /\ CrmLive(crm, h)
  /\ bs[u].extid = <<h>>
  /\ crm[h].props.tte_customer_uri = <<u>>

\* the pair in hand carries one status
SameStatus(o) ==
  \A u \in URIS, h \in HIDS :
    (LinkedPair(u, h) /\ InHand(o, u, h))
      => bs[u].status = crm[h].props.tte_customer_sync_status

\* C28 as stated: whenever a sync step, outbound or inbound, of a sweep or
\* of a single-record sync, completes and writes a status, the Sync Status
\* of the BS record and the tte_customer_sync_status of the linked CRM
\* contact are the same string afterwards.
C28_SharedSyncStatus ==
  \A o \in {osw, oev, isw, iev} : WroteStatus(o) => SameStatus(o)

\* a request of remove_old_subscriptions is answered with an error:
\* the enumeration, or the archive of a subscription the app holds
RemovalFails ==
  \/ "get_all" \in hsub.fail
  \/ \E id \in hsub.old : ("archive:" \o id) \in hsub.fail

\* C29: if enumerating the existing CRM webhook subscriptions fails, or
\* archiving one of them fails, setup_hubspot_subscriptions propagates the
\* error to its caller and registers no new subscription.
C29_SetupFailureAborts ==
  /\ hsub.pc = "raised" =>
       /\ RemovalFails
       /\ hsub.made = <<>> /\ hsub.subs \subseteq hsub.old
       /\ hsub.url = ""
  /\ RemovalFails =>
       /\ hsub.pc \in {"idle", "get_all", "archive", "raised"}
       /\ hsub.made = <<>> /\ hsub.subs \subseteq hsub.old

\* the archive of the second subscription failed after the first was
\* archived: the setup raised with nothing registered
C29_Witness ==
  /\ hsub.pc = "raised"
  /\ hsub.old = {"s1", "s2"} /\ hsub.subs = {"s2"}
  /\ "archive:s2" \in hsub.fail
  /\ hsub.made = <<>>

\* a request has been sent to the BS
RequestSent == net.last.fn # ""

OutCrmCallFailed(o) ==
  /\ o.log # <<>> /\ o.log[1].sys = "crm"
  /\ \/ o.log[1].op = "create" /\ o.newid = Null
     \/ o.log[1].op = "update" /\ ~CrmUpdateOk(crm, crmReject, <<o.log[1].to>>)

\* the outbound task o has stamped the record in hand as successfully synced
OutStampedSuccess(o) ==
  /\ o.fin /\ o.cur.exists /\ ~o.cur.deleted
  /\ Len(o.log) = 2 /\ o.log[2].sys = "bs" /\ o.log[2].op = "update"
  /\ o.log[2].data.status.kind = "ok"
  /\ bs[o.cur.uri].status = o.log[2].data.status

\* C31 as stated: outbound sync, sweep and single-record, writes a success
\* Sync Status to the BS record only if the CRM create or update issued in
\* the same step succeeded; when the CRM call fails the record is not stamped
\* as successfully synced.
C31_SuccessMarkerMeansSuccess ==
  /\ OutStampedSuccess(osw) => ~OutCrmCallFailed(osw)
  /\ OutStampedSuccess(oev) => ~OutCrmCallFailed(oev)

\* identity tracking is enabled and neither system fails a read or a write
TrackedNoFailure ==
  track /\ bsReject = {} /\ crmReject = {} /\ fetchFail = {}

\* the task has issued no create for the item in hand
NoCreateIn(o) == \A k \in 1..Len(o.log) : o.log[k].op # "create"

\* the contacts the CRM holds, the customers the BS holds
ContactsHeld(c) == {h \in HIDS : c[h].exists}
CustomersHeld(b) == {u \in URIS : b[u].exists}

\* C32: with identity tracking enabled and no remote failure, the second
\* outbound sweep over the BS records the first one left issues no CRM
\* create and leaves the number of CRM contacts unchanged, and the second
\* inbound sweep issues no BS create and leaves the number of BS customers
\* unchanged.
C32_RepeatedSweepNoDuplicates ==
  /\ [](TrackedNoFailure =>
          /\ osw.round = 2 => NoCreateIn(osw)
          /\ isw.round = 2 => NoCreateIn(isw))
  /\ [][(TrackedNoFailure /\ (osw.round = 2 \/ isw.round = 2)) =>
          /\ ContactsHeld(crm') = ContactsHeld(crm)
          /\ CustomersHeld(bs') = CustomersHeld(bs)]_vars

\* the first sweep created a contact for customer U3 and wrote its id back,
\* the second sweep updates that contact
C32_Witness ==
  /\ TrackedNoFailure
  /\ osw.round = 2 /\ osw.fin /\ osw.cur.uri = U3
  /\ osw.cur.extid # Null /\ Anon.extid = Null
  /\ Len(osw.log) = 2 /\ osw.log[1].op = "update"
  /\ <<osw.log[1].to>> = osw.cur.extid
  /\ Cardinality(ContactsHeld(crm)) > 2

\* the inbound task o is creating, or has created, a customer for the
\* contact in hand
InCreating(o) == o.pc = "create" \/ (o.log # <<>> /\ o.log[1].op = "create")

\* the outbound task o has issued a create for the customer in hand
OutCreating(o) == o.log # <<>> /\ o.log[1].sys = "crm" /\ o.log[1].op = "create"

\* C33: a contact created by outbound sync carries the BS URI, and neither
\* the inbound sweep nor a CRM notification for it creates a BS customer; a
\* customer created by inbound sync with tracking enabled carries the CRM id,
\* and neither the outbound sweep nor a BS notification for it creates a
\* contact, whether or not the creating step has finished its write-back.
\* The records each side holds never outnumber the records held before.
C33_NoCrossDuplication ==
  /\ \A h \in ContactsHeld(crm) \ FirstHids :
       crm[h].props.tte_customer_uri \in {<<u>> : u \in FirstUris}
  /\ \A u \in CustomersHeld(bs) \ FirstUris :
       bs[u].extid \in {<<h>> : h \in FirstHids}
  /\ InCreating(isw) => KeyOf(isw.cur.hs_object_id) \in FirstHids
  /\ InCreating(iev) => KeyOf(iev.cur.hs_object_id) \in FirstHids
  /\ OutCreating(osw) => osw.cur.uri \in FirstUris
  /\ OutCreating(oev) => oev.cur.uri \in FirstUris
  /\ Cardinality(CustomersHeld(bs)) <=
       Cardinality(FirstUris) + Cardinality(FirstHids)
  /\ Cardinality(ContactsHeld(crm)) <=
       Cardinality(FirstUris) + Cardinality(FirstHids)

\* the inbound sweep has created customer U2 for contact H1 and not yet
\* written the URI back, and the notification of U2 has been handled
\* without a create
C33_Witness ==
  /\ isw.pc = "crm" /\ isw.cur.hs_object_id = <<H1>>
  /\ isw.log # <<>> /\ isw.log[1].op = "create"
  /\ crm[H1].props.tte_customer_uri = Null
  /\ oev.fin /\ oev.cur.uri = U2 /\ oev.cur.extid = <<H1>>
  /\ oev.current # <<>> /\ NoCreateIn(oev)

\* the CRM properties the inbound path writes
InboundCrmProperties == {"tte_customer_uri", "tte_customer_sync_status"}

\* an inbound task takes the step
InboundStep == isw' # isw \/ iev' # iev

\* the step leaves every contact as it was, but for the properties written
\* by the inbound path
CrmFrame ==
  \A h \in HIDS :
    /\ crm'[h].exists = crm[h].exists /\ crm'[h].archived = crm[h].archived
    /\ \A k \in DOMAIN crm[h].props \ InboundCrmProperties :
         crm'[h].props[k] = crm[h].props[k]

\* the CRM requests the inbound tasks issued for the items in hand carry
\* properties of the inbound path only
InboundCrmRequests ==
  \A o \in {isw, iev} : \A k \in 1..Len(o.log) :
    o.log[k].sys = "crm" =>
      /\ o.log[k].op = "update"
      /\ DOMAIN o.log[k].data \subseteq InboundCrmProperties

\* C34: the only CRM properties the inbound path writes are tte_customer_uri
\* and tte_customer_sync_status, neither of which is subscribed for
\* contact.propertyChange, so that no inbound step makes the CRM notify of a
\* change.
C34_InboundWritesNotSubscribed ==
  /\ InboundCrmProperties \cap HUBSPOT_SUBSCRIPTIONS = {}
  /\ [][InboundStep => (CrmFrame /\ CrmEvents(crm, crm') = {}
                        /\ (~IevDeliver => crmDue' = crmDue))]_vars
  /\ []InboundCrmRequests

\* the notification task has created a customer for contact H1 and written
\* the URI and the status to the contact
C34_Witness ==
  /\ iev.fin /\ Len(iev.log) = 2 /\ iev.log[1].op = "create"
  /\ iev.log[2].sys = "crm" /\ iev.log[2].to = H1
  /\ DOMAIN iev.log[2].data = InboundCrmProperties
  /\ crm[H1].props.tte_customer_uri = iev.log[2].data.tte_customer_uri
  /\ crm[H1].props.tte_customer_sync_status.kind = "ok"
  /\ crm[H1].props.tte_customer_uri # Null

\* the notification in hand is the deletion of a contact read without a BS
\* cross-reference, and the task has come to its delete
UnlinkedDeletion(o) ==
  /\ o.br = "delete" /\ o.pc # "delete"
  /\ LastNotification(o).subscriptionType = "contact.deletion"
  /\ ~Truthy(o.cur.tte_customer_uri)

\* the task goes on with the notification after the one in hand, or has
\* ended with the batch
GoesOn(o) ==
  IF Len(o.visited) < Len(o.page)
  THEN o.pc = "rec" /\ o.i = Len(o.visited) + 1
  ELSE o.pc = "done"

\* C35: a contact.deletion notification for a contact that carries no BS
\* cross-reference issues no BS delete request, and the task goes on with
\* the remaining notifications of the batch.
C35_UnlinkedDeletionSkipped ==
  UnlinkedDeletion(iev) =>
    /\ iev.log = <<>>
    /\ iev.fin /\ GoesOn(iev)

\* the deletion of the archived, unlinked contact H1 sent nothing, and the
\* notification after it is next
C35_Witness ==
  /\ UnlinkedDeletion(iev) /\ iev.cur.hs_object_id = <<H1>>
  /\ crm[H1].archived /\ crm[H1].props.tte_customer_uri = Null
  /\ iev.pc = "rec" /\ iev.i = 2
  /\ iev.page[2] = Notification("contact.propertyChange", H3)
  /\ bs[U2] = Bob

\* the notification in hand is the change of a contact read without a BS
\* cross-reference
UnlinkedChange(o) ==
  /\ o.br # ""
  /\ LastNotification(o).subscriptionType = "contact.propertyChange"
  /\ ~Truthy(o.cur.tte_customer_uri)

\* C36: a contact.propertyChange notification for a contact that carries no
\* BS cross-reference is skipped: no BS create, update or delete and no CRM
\* write is issued for it, and neither system is changed by its handling.
C36_UnlinkedChangeSkipped ==
  /\ [](UnlinkedChange(iev) =>
          (iev.br = "skip" /\ iev.log = <<>> /\ iev.fin /\ GoesOn(iev)))
  /\ [][(iev' # iev /\ UnlinkedChange(iev') /\ iev'.visited # iev.visited) =>
          (bs' = bs /\ crm' = crm)]_vars

\* the change of contact H3, which a CRM user entered and no sync has
\* linked, has been handled without a request
C36_Witness ==
  /\ UnlinkedChange(iev) /\ iev.cur.hs_object_id = <<H3>>
  /\ CrmLive(crm, H3) /\ crm[H3].props.tte_customer_uri = Null
  /\ iev.fin /\ iev.log = <<>>
  /\ CustomersHeld(bs) = {U1, U2}

\* the place of the first space of a name, one past its end when it has none
FirstSpace(s) ==
  IF \E i \in 1..Len(s) : s[i] = SP
  THEN CHOOSE i \in 1..Len(s) : s[i] = SP /\ \A j \in 1..(i - 1) : s[j] # SP
  ELSE Len(s) + 1

\* the name neither starts nor ends with a space
Trimmed(s) == s = <<>> \/ (s[1] # SP /\ s[Len(s)] # SP)

\* C37: for every BS name with no leading and no trailing space the first
\* name sent to the CRM is the text before the first space, the last name is
\* the remainder, and the name translated back is exactly the original.
C37_NameRoundTrip ==
  (Returned("NameRoundTrip") /\ Trimmed(call.args[1])) =>
    LET name == call.args[1]
        k == FirstSpace(name)
    IN /\ ret[1].firstname = SubSeq(name, 1, k - 1)
       /\ ret[1].lastname = SubSeq(name, k + 1, Len(name))
       /\ ret[1].name = name

\* a name with two spaces in a row: the last name starts with the second
C37_Witness ==
  /\ Returned("NameRoundTrip")
  /\ call.args[1] = <<"Ada", SP, SP, "Lovelace">>
  /\ ret[1].firstname = Ada /\ ret[1].lastname = <<SP, "Lovelace">>
  /\ ret[1].name = call.args[1]

\* the request carries records to sync: any request of the CRM, a request of
\* the BS with scope "customer" and an items list
CarriesRecords(d) ==
  \/ d.src = "crm"
  \/ /\ "scope" \in DOMAIN d.notification
     /\ d.notification["scope"] = "customer"
     /\ "items" \in DOMAIN d.notification

\* the syncs of the process began in list order
InListOrder(t) == \A j \in 1..Len(t.begun) : t.begun[j] = j

\* C38: a webhook request that carries records is handed to one process, and
\* the handler answers 200 whether or not the process has ended; the syncs
\* of one request begin in list order and no two of them are under way at
\* once; the process of a request may begin its next sync whatever the
\* processes of the other requests are doing.
C38_DispatchGranularity ==
  \A k \in 1..MaxDeliveries :
    LET d == web[k]
    IN /\ d.procs <= 1
       /\ (d.pc \in {"respond", "answered"} /\ CarriesRecords(d)) => d.procs = 1
       /\ d.pc = "respond" => ENABLED WebRespond(k)
       /\ d.pc = "answered" => d.resp = 200
       /\ Cardinality(d.task.running) <= 1
       /\ InListOrder(d.task)
       /\ d.task.pc = "done" => Len(d.task.begun) = RecordCount(d)
       /\ (d.task.pc = "run" /\ d.task.running = {}
           /\ d.task.i < RecordCount(d)) => ENABLED SyncBegin(k)

\* two requests for the customers U1 and U2: the first is answered while its
\* process is at the sync of U2, the process of the second is at the sync
\* of U1
C38_Witness ==
  /\ web[1].src = "bs" /\ web[2].src = "bs"
  /\ web[1].notification =
       TteNotification({"scope", "items"}, "customer", <<U1, U2>>)
  /\ web[2].notification = web[1].notification
  /\ web[1].pc = "answered" /\ web[1].resp = 200
  /\ web[1].task.pc = "run" /\ web[1].task.running = {2}
  /\ web[1].task.begun = <<1, 2>>
  /\ web[2].task.pc = "run" /\ web[2].task.running = {1}

\* C39: the BS webhook handler starts a process only for a notification
\* with scope "customer" that holds an items list; for any other it starts
\* none, so that no sync and no remote call is made for it; it answers 200
\* in every case.
C39_CustomerScopeOnly ==
  \A k \in 1..MaxDeliveries :
    LET d == web[k]
    IN d.src = "bs" =>
         /\ d.procs > 0 => CarriesRecords(d)
         /\ ~CarriesRecords(d) =>
              (d.procs = 0 /\ d.task = NoProcess)
         /\ d.pc = "respond" => ENABLED WebRespond(k)
         /\ d.pc = "answered" => d.resp = 200

\* a notification of scope "staff" with items, and one of scope "customer"
\* without, both answered and neither given a process
C39_Witness ==
  /\ web[1].src = "bs" /\ web[2].src = "bs"
  /\ web[1].notification =
       TteNotification({"scope", "items"}, "staff", <<U1, U2>>)
  /\ web[2].notification = TteNotification({"scope"}, "customer", <<>>)
  /\ web[1].pc = "answered" /\ web[1].resp = 200 /\ web[1].procs = 0
  /\ web[2].pc = "answered" /\ web[2].resp = 200 /\ web[2].procs = 0

\* the subscriptions of s for customers, and those of another scope
CustomerScoped(s) == SelectSeq(s, LAMBDA x : x.scope = "customer")
OtherScoped(s) == SelectSeq(s, LAMBDA x : x.scope # "customer")
\* what the subscriptions of s ask for, their resource URIs left aside
Asked(s) ==
  {[scope |-> s[i].scope, callback_url |-> s[i].callback_url] :
     i \in 1..Len(s)}

====
